---- MODULE Spec2Model ----
(***************************************************************************)
(* Model of the translation orchestration layer of i18n-ai                 *)
(* (src/src/translator.ts, src/src/utils/translation-utils.ts).            *)
(*                                                                         *)
(* A text is a sequence of tokens: a word, the whitespace token " " or the *)
(* batch separator "|||".  The empty sequence is the empty string, which   *)
(* JavaScript treats as falsy.  An optional value is a sequence of length  *)
(* 0 (undefined) or 1.                                                     *)
(***************************************************************************)
EXTENDS Integers, Sequences, FiniteSets, TLC

VARIABLES
    providers,          \* AITranslationService.providers, an insertion-ordered Map
    pc,                 \* position of the running translateStrings call
    extractedStrings,   \* argument of translateStrings
    targetLanguages,    \* argument of translateStrings
    providerName,       \* argument of translateStrings
    provider,           \* local const provider, <<>> while unresolved
    results,            \* local Map results: language -> TranslationResult[]
    langIdx,            \* position of the for-of loop over targetLanguages
    translations,       \* value the last translateBatch call returned
    batchPath,          \* how the last translateBatch call ended
    fbIndex,            \* i of fallbackToIndividualTranslations
    fbResults,          \* results array of fallbackToIndividualTranslations
    outcomes,           \* per item, how its retryWithBackoff call ended
    attempt,            \* attempt of retryWithBackoff
    invocations,        \* calls of fn made by the running retryWithBackoff
    lastError,          \* lastError of retryWithBackoff, <<>> while unset
    lastResponse,       \* transport response the last translate call saw
    delayLog,           \* delays waited by the running retryWithBackoff
    providerCalled,     \* whether a provider operation was invoked in this run
    batchCalls,         \* the translateBatch calls of this run, in order
    translateCalls,     \* the translate calls of this run (their arguments)
    thrown              \* error translateStrings raised, <<>> if none

serviceVars == <<providers, pc, extractedStrings, targetLanguages, providerName,
                 provider, results, langIdx, translations, batchPath, fbIndex,
                 fbResults, outcomes, attempt, invocations, lastError, lastResponse,
                 delayLog, providerCalled, batchCalls, translateCalls, thrown>>

\* The text utilities (shouldExtractString, generateTranslationKey, generateKey)
\* are pure functions: the state holds the text they are applied to and what
\* they returned.  A text here is a sequence of characters.
VARIABLES
    inputText,          \* the text of the extracted string
    utilCall,           \* the operation applied last, "none" before any call
    extracted,          \* value shouldExtractString / shouldExtract returned
    maxLength,          \* argument maxLength of generateTranslationKey, <<>> if omitted
    derivedKey,         \* value generateTranslationKey returned
    rederivedKey,       \* value generateTranslationKey returned for derivedKey
    exportedKey         \* key exportToJSON wrote for the text

utilVars == <<inputText, utilCall, extracted, maxLength, derivedKey,
              rederivedKey, exportedKey>>

\* The scanner and the parser.  An array is an object of the heap: the state
\* holds a reference (its position in heap) wherever the program holds one.
VARIABLES
    files,              \* the files the enumeration (glob) yielded
    scanPc,             \* position of the running scan
    fileIdx,            \* position of the for-of loop over files
    cursor,             \* node the tree walk of parseFile is at
    heap,               \* the ExtractedString arrays allocated so far
    parserStrings,      \* ReactParser.extractedStrings (a reference)
    scanResults,        \* local results of FileScanner.scan
    summary,            \* what generateSummary printed, <<>> before it ran
    report              \* exportData of exportToJSON, <<>> before it ran

scanVars == <<files, scanPc, fileIdx, cursor, heap, parserStrings, scanResults,
              summary, report>>

\* TranslationFileGenerator.generateFiles
VARIABLES
    genStrings,         \* argument extractedStrings of generateFiles
    genTranslations,    \* argument translations, a Map in insertion order
    genPc,              \* position of the running generateFiles call
    genLang,            \* position of translations.forEach
    genIndex,           \* index of results.forEach in buildTranslationMap
    translationMap,     \* local translationMap of buildTranslationMap
    savedJSON,          \* the <language>.json files written
    savedI18next        \* the <language>-i18next.json files written

fileVars == <<genStrings, genTranslations, genPc, genLang, genIndex, translationMap,
              savedJSON, savedI18next>>

vars == <<serviceVars, utilVars, scanVars, fileVars>>

-----------------------------------------------------------------------------
(* Bounds of the model *)

MaxStrings == 2

-----------------------------------------------------------------------------
(* Program constants *)

DefaultMaxRetries == 3

DefaultRetryDelay == 1000

BATCH_SEPARATOR == "|||"

None == <<>>

Some(v) == <<v>>

EmptyMap == [l \in {} |-> <<>>]

Min(a, b) == IF a < b THEN a ELSE b

RECURSIVE Pow2(_)
Pow2(n) == IF n = 0 THEN 1 ELSE 2 * Pow2(n - 1)

-----------------------------------------------------------------------------
(* Inputs *)

StringPool ==
    << [text |-> <<"Hello">>,             context |-> "<h1>"],
       [text |-> <<"Save", " ", "file">>, context |-> "JSX attribute: title"],
       [text |-> <<"Cancel">>,            context |-> "Variable: label"],
       [text |-> <<"Welcome">>,           context |-> "String literal"] >>

WordPool == <<"Bonjour", "Enregistrer", "Annuler", "Bienvenue", "Oui">>

InputStrings ==
    { SubSeq(StringPool, 1, n) : n \in 0..Min(MaxStrings, Len(StringPool)) }

\* The default of the generate command's --languages option
DefaultLanguages == <<"fr", "es">>

Langs == { DefaultLanguages[i] : i \in 1..Len(DefaultLanguages) }

RECURSIVE SeqsUpTo(_, _)
SeqsUpTo(S, n) ==
    IF n = 0 THEN { <<>> }
    ELSE LET shorter == SeqsUpTo(S, n - 1)
         IN  shorter \cup { Append(s, x) : s \in shorter, x \in S }

\* Target language lists: the default languages in any order, repeated or left out
InputLangs == SeqsUpTo(Langs, Len(DefaultLanguages))

ProviderNames == {"OpenAI", "DeepL", "Custom"}

RequestedNames == ProviderNames \cup {"Gemini"}

\* TranslationConfig objects handed to a translator's constructor
UserConfigs ==
    { [maxRetries |-> None, retryDelay |-> None],
      [maxRetries |-> Some(1), retryDelay |-> Some(500)] }

-----------------------------------------------------------------------------
(* Text operations *)

RECURSIVE TrimStart(_)
TrimStart(s) ==
    IF s # <<>> /\ Head(s) = " " THEN TrimStart(Tail(s)) ELSE s

RECURSIVE TrimEnd(_)
TrimEnd(s) ==
    IF s # <<>> /\ s[Len(s)] = " " THEN TrimEnd(SubSeq(s, 1, Len(s) - 1)) ELSE s

\* String.prototype.trim
Trim(s) == TrimEnd(TrimStart(s))

RECURSIVE SplitAcc(_, _, _)
SplitAcc(s, cur, acc) ==
    IF s = <<>> THEN Append(acc, cur)
    ELSE IF Head(s) = BATCH_SEPARATOR
         THEN SplitAcc(Tail(s), <<>>, Append(acc, cur))
         ELSE SplitAcc(Tail(s), Append(cur, Head(s)), acc)

\* String.prototype.split(BATCH_SEPARATOR)
Split(s) == SplitAcc(s, <<>>, <<>>)

\* A JavaScript value used as a condition: undefined and "" are falsy
Truthy(opt) == opt # None /\ opt[1] # <<>>

-----------------------------------------------------------------------------
(* Errors *)

MakeError(message) ==
    [name |-> "Error", message |-> message, provider |-> None,
     statusCode |-> None, originalError |-> None]

TypeError(message) ==
    [name |-> "TypeError", message |-> message, provider |-> None,
     statusCode |-> None, originalError |-> None]

TranslationError(message, prov, originalError) ==
    [name |-> "TranslationError", message |-> message, provider |-> Some(prov),
     statusCode |-> None, originalError |-> originalError]

APIError(message, prov, statusCode) ==
    [name |-> "APIError", message |-> message, provider |-> Some(prov),
     statusCode |-> Some(statusCode), originalError |-> None]

Return(v) == [ok |-> TRUE, value |-> v]

Throw(e) == [ok |-> FALSE, error |-> e]

-----------------------------------------------------------------------------
(* Transport responses of the remote services *)

FailureStatuses == {401, 500}

StatusText(status) == IF status = 401 THEN "HTTP 401: Unauthorized"
                      ELSE "HTTP 500: Internal Server Error"

NetworkFailure == [type |-> "neterr"]

HttpFailure(status) == [type |-> "http", status |-> status]

Json(body) == [type |-> "json", body |-> body]

\* A successful response without the expected structure
EmptyBody == [message |-> "unexpected"]

RECURSIVE JoinPieces(_)
\* k words joined by the batch separator, padded with whitespace
JoinPieces(k) ==
    IF k = 0 THEN <<>>
    ELSE IF k = 1 THEN <<" ", WordPool[1], " ">>
    ELSE JoinPieces(k - 1) \o <<BATCH_SEPARATOR, " ", WordPool[Min(k, Len(WordPool))]>>

\* The numbers of translations a service may answer to a request for n texts:
\* none, one fewer, as many, one more
AnswerLengths(n) == { k \in {0, n - 1, n, n + 1} : k >= 0 }

OpenAIBodies(lengths) ==
    { EmptyBody, [choices |-> <<>>], [choices |-> <<None>>] }
        \cup { [choices |-> <<Some(JoinPieces(k))>>] : k \in lengths }

DeepLBodies(lengths) ==
    { EmptyBody, [translations |-> << [text |-> <<>>] >>] }
        \cup { [translations |->
                   [i \in 1..k |-> [text |-> <<WordPool[Min(i, Len(WordPool))]>>]]] :
               k \in lengths }

FailedResponses ==
    { NetworkFailure } \cup { HttpFailure(s) : s \in FailureStatuses }

\* The transport responses to a request of translator `name`, a successful one
\* holding as many translations as one of `lengths`
Responses(name, lengths) ==
    FailedResponses \cup
        { Json(b) : b \in IF name = "OpenAI" THEN OpenAIBodies(lengths)
                          ELSE DeepLBodies(lengths) }

\* What a provider that is no built-in translator may answer to translateBatch
CustomBatchOutcomes(n) ==
    { Throw(MakeError(<<"custom provider failed">>)) }
        \cup { Return([i \in 1..k |-> <<WordPool[Min(i, Len(WordPool))]>>]) :
               k \in AnswerLengths(n) }

-----------------------------------------------------------------------------
(* makeHTTPRequest *)

makeHTTPRequest(response, prov) ==
    CASE response.type = "http" ->
            Throw(APIError(<<StatusText(response.status)>>, prov, response.status))
      [] response.type = "neterr" ->
            Throw(TranslationError(<<"Network request failed", "fetch failed">>, prov,
                                   Some(TypeError(<<"fetch failed">>))))
      [] OTHER -> Return(response.body)

-----------------------------------------------------------------------------
(* Translators *)

\* BaseTranslator constructor: the defaults, overridden by the given config
MergeConfig(config) ==
    [maxRetries |-> IF config.maxRetries # None THEN config.maxRetries[1]
                    ELSE DefaultMaxRetries,
     retryDelay |-> IF config.retryDelay # None THEN config.retryDelay[1]
                    ELSE DefaultRetryDelay]

NewTranslator(name, config) == [name |-> name, config |-> MergeConfig(config)]

ProviderObjects ==
    { NewTranslator("OpenAI", c) : c \in UserConfigs }
        \cup { NewTranslator("DeepL", [maxRetries |-> None, retryDelay |-> None]) }
        \cup { [name |-> "Custom"] }

IsBuiltIn(prov) == prov.name \in {"OpenAI", "DeepL"}

\* OpenAITranslator.extractTranslationFromResponse
extractTranslationFromResponse(data) ==
    IF "choices" \in DOMAIN data /\ Len(data.choices) > 0
    THEN IF data.choices[1] = None THEN None ELSE Some(Trim(data.choices[1][1]))
    ELSE None

TranslationFailed(inner, prov) ==
    TranslationError(<<"Translation failed">> \o inner.message, prov, Some(inner))

\* OpenAITranslator.translate, given the transport response of its request
OpenAITranslate(text, response) ==
    LET r == makeHTTPRequest(response, "OpenAI") IN
    IF r.ok
    THEN LET e == extractTranslationFromResponse(r.value)
         IN  Return(IF Truthy(e) THEN e[1] ELSE text)
    ELSE Throw(TranslationFailed(r.error, "OpenAI"))

\* DeepLTranslator.translate, given the transport response of its request
DeepLTranslate(text, response) ==
    LET r == makeHTTPRequest(response, "DeepL") IN
    IF r.ok
    THEN IF "translations" \in DOMAIN r.value
         THEN LET ts == r.value.translations
              IN  Return(IF Len(ts) > 0 /\ ts[1].text # <<>> THEN ts[1].text ELSE text)
         ELSE Throw(TranslationFailed(
                  TypeError(<<"Cannot read properties of undefined">>), "DeepL"))
    ELSE Throw(TranslationFailed(r.error, "DeepL"))

Translate(prov, text, response) ==
    IF prov.name = "OpenAI" THEN OpenAITranslate(text, response)
    ELSE DeepLTranslate(text, response)

\* The try block of OpenAITranslator.translateBatch: the translations it
\* returns, or the error that sends it to the per-item fallback
OpenAIBatchTry(texts, response) ==
    LET r == makeHTTPRequest(response, "OpenAI") IN
    IF r.ok
    THEN LET result == extractTranslationFromResponse(r.value)
         IN  IF Truthy(result)
             THEN LET parts == Split(result[1])
                  IN  Return([i \in 1..Len(parts) |-> Trim(parts[i])])
             ELSE Return(texts)
    ELSE r

\* The try block of DeepLTranslator.translateBatch
DeepLBatchTry(texts, response) ==
    LET r == makeHTTPRequest(response, "DeepL") IN
    IF r.ok
    THEN IF "translations" \in DOMAIN r.value
         THEN Return([i \in 1..Len(r.value.translations) |->
                         r.value.translations[i].text])
         ELSE Throw(TypeError(<<"Cannot read properties of undefined">>))
    ELSE r

BatchTry(prov, texts, response) ==
    IF prov.name = "OpenAI" THEN OpenAIBatchTry(texts, response)
    ELSE DeepLBatchTry(texts, response)

-----------------------------------------------------------------------------
(* The provider registry: a Map keeps its keys in insertion order *)

MapHas(m, key) == \E i \in 1..Len(m) : m[i].name = key

MapGet(m, key) == m[CHOOSE i \in 1..Len(m) : m[i].name = key]

\* AITranslationService.addProvider
MapSet(m, prov) ==
    IF MapHas(m, prov.name)
    THEN [i \in 1..Len(m) |-> IF m[i].name = prov.name THEN prov ELSE m[i]]
    ELSE Append(m, prov)

\* AITranslationService.listProviders
listProviders(m) == [i \in 1..Len(m) |-> m[i].name]

\* Mutant of ResolveProvider: an unknown name silently gets the first provider
ResolveProviderOrFirst(m, name) ==
    IF MapHas(m, name) THEN Some(MapGet(m, name))
    ELSE IF m # <<>> THEN Some(m[1]) ELSE None

\* this.providers.get(providerName), undefined if the name is not registered
ResolveProvider(m, name) ==
    IF MapHas(m, name) THEN Some(MapGet(m, name)) ELSE None

ProviderNotFound(name, m) ==
    MakeError(<<"Provider", name, "not found. Available providers:">>
                  \o listProviders(m))

-----------------------------------------------------------------------------
(* AITranslationService.translateStrings *)

N == Len(extractedStrings)

Texts == [i \in 1..N |-> extractedStrings[i].text]

\* Mutant of CurLang: the languages are taken from the end of the list
CurLangReversed == targetLanguages[Len(targetLanguages) + 1 - langIdx]

\* const lang of the for-of loop over targetLanguages
CurLang == targetLanguages[langIdx]

\* Mutant of Contexts: the contexts are passed in reverse order
ContextsReversed == [i \in 1..N |-> extractedStrings[N + 1 - i].context]

\* const contexts = extractedStrings.map((s) => s.context)
Contexts == [i \in 1..N |-> extractedStrings[i].context]

\* provider.translateBatch(texts, lang, contexts), and whether the batch request
\* raised an error
BatchCall(raised) ==
    [lang |-> CurLang, texts |-> Texts, contexts |-> Contexts, raised |-> raised]

\* this.translate(texts[i], targetLang, contexts?.[i]) of the fallback, made
\* while translateStrings is at position langIdx of targetLanguages
TranslateCall(i) ==
    [pos |-> langIdx, lang |-> CurLang, text |-> Texts[i], context |-> Contexts[i]]

Config == provider[1].config

\* Mutant of FallbackResults: a failed language gets an empty result set
FallbackResultsEmpty(lang) == <<>>

\* The catch block of translateStrings: every string keeps its original text
FallbackResults(lang) ==
    [i \in 1..N |-> [originalText   |-> extractedStrings[i].text,
                     translatedText |-> extractedStrings[i].text,
                     language       |-> lang,
                     context        |-> extractedStrings[i].context]]

\* The try block of translateStrings after translateBatch returned: reading
\* extractedStrings[index].text past the end raises a TypeError, which its
\* catch block turns into the fallback results
LangResults(translated, lang) ==
    IF Len(translated) > N
    THEN FallbackResults(lang)
    ELSE [i \in 1..Len(translated) |->
             [originalText   |-> extractedStrings[i].text,
              translatedText |-> translated[i],
              language       |-> lang,
              context        |-> extractedStrings[i].context]]

\* Mutant of ResultsSet: storing one language drops the others
ResultsSetAlone(m, lang, value) == [l \in {lang} |-> value]

\* results.set(lang, ...)
ResultsSet(m, lang, value) ==
    [l \in DOMAIN m \cup {lang} |-> IF l = lang THEN value ELSE m[l]]

\* The rest of one iteration of the language loop, once translateBatch has
\* returned or thrown, up to the next provider call or the return
CompleteLang(outcome, path) ==
    /\ results' = ResultsSet(results, CurLang,
                             IF outcome.ok THEN LangResults(outcome.value, CurLang)
                             ELSE FallbackResults(CurLang))
    /\ translations' = IF outcome.ok THEN Some(outcome.value) ELSE None
    /\ batchPath' = path
    /\ langIdx' = langIdx + 1
    /\ pc' = IF langIdx = Len(targetLanguages) THEN "returned" ELSE "batch"

\* AITranslationService.addProvider
AddProvider(prov) ==
    /\ pc = "idle"
    /\ providers' = MapSet(providers, prov)
    /\ UNCHANGED <<utilVars, scanVars, fileVars, pc, extractedStrings, targetLanguages, providerName, provider,
                   results, langIdx, translations, batchPath, fbIndex, fbResults,
                   outcomes, attempt, invocations, lastError, lastResponse,
                   delayLog, providerCalled, batchCalls,
                   translateCalls, thrown>>

\* translateStrings, from its call to its first provider call
TranslateStrings(strs, langs, name) ==
    /\ pc = "idle"
    /\ extractedStrings' = strs
    /\ targetLanguages' = langs
    /\ providerName' = name
    /\ provider' = ResolveProvider(providers, name)
    /\ IF ResolveProvider(providers, name) = None
       THEN /\ thrown' = Some(ProviderNotFound(name, providers))
            /\ pc' = "thrown"
            /\ UNCHANGED langIdx
       ELSE /\ UNCHANGED thrown
            /\ IF strs = <<>>
               THEN pc' = "returned" /\ UNCHANGED langIdx
               ELSE /\ langIdx' = 1
                    /\ pc' = IF langs = <<>> THEN "returned" ELSE "batch"
    /\ UNCHANGED <<utilVars, scanVars, fileVars, providers, results, translations, batchPath, fbIndex, fbResults,
                   outcomes, attempt, invocations, lastError, lastResponse,
                   delayLog, providerCalled, batchCalls, translateCalls>>

\* A provider that is no built-in translator answers translateBatch
CustomBatch ==
    /\ pc = "batch"
    /\ ~IsBuiltIn(provider[1])
    /\ providerCalled' = TRUE
    /\ \E outcome \in CustomBatchOutcomes(N) :
           /\ CompleteLang(outcome, IF outcome.ok THEN "batch" ELSE "threw")
           /\ batchCalls' = Append(batchCalls, BatchCall(~outcome.ok))
    /\ UNCHANGED <<utilVars, scanVars, fileVars, providers, extractedStrings, targetLanguages, providerName,
                   provider, fbIndex, fbResults, outcomes, attempt, invocations,
                   lastError, lastResponse, delayLog, translateCalls, thrown>>

\* The response to the batch request of a built-in translator arrives
BatchResponse ==
    /\ pc = "batch"
    /\ IsBuiltIn(provider[1])
    /\ providerCalled' = TRUE
    /\ \E response \in Responses(provider[1].name, AnswerLengths(N)) :
       LET r == BatchTry(provider[1], Texts, response) IN
       /\ batchCalls' = Append(batchCalls, BatchCall(~r.ok))
       /\ IF r.ok
          THEN /\ CompleteLang(r, "batch")
               /\ fbIndex' = 0
               /\ fbResults' = <<>>
               /\ outcomes' = <<>>
               /\ invocations' = 0
               /\ UNCHANGED <<attempt, lastError, lastResponse, delayLog>>
          ELSE \* fallbackToIndividualTranslations starts with its first item
               /\ pc' = "translate"
               /\ fbIndex' = 1
               /\ fbResults' = <<>>
               /\ outcomes' = <<>>
               /\ attempt' = 0
               /\ invocations' = 1
               /\ lastError' = None
               /\ lastResponse' = None
               /\ delayLog' = <<>>
               /\ translations' = None
               /\ batchPath' = "running"
               /\ UNCHANGED <<results, langIdx>>
    /\ UNCHANGED <<utilVars, scanVars, fileVars, providers, extractedStrings, targetLanguages, providerName,
                   provider, translateCalls, thrown>>

\* Mutant of IsLastAttempt: one more attempt before giving up
IsLastAttemptLate(att, maxRetries) == att = maxRetries + 1

\* retryWithBackoff: attempt === maxRetries, the failure is final
IsLastAttempt(att, maxRetries) == att = maxRetries

\* Mutant of BackoffDelay: the delay grows linearly
BackoffDelayLinear(baseDelay, att) == baseDelay * (att + 1)

\* retryWithBackoff: baseDelay * Math.pow(2, attempt)
BackoffDelay(baseDelay, att) == baseDelay * Pow2(att)

\* Mutant of KeepOriginal: a failed item is left without text
KeepOriginalEmpty(texts, i) == <<>>

\* The catch block of the fallback: results.push(texts[i])
KeepOriginal(texts, i) == texts[i]

\* Mutant of Push: the new result goes to the front
PushFront(arr, value) == <<value>> \o arr

\* results.push(...)
Push(arr, value) == Append(arr, value)

\* Mutant of ItemDone: the result is pushed and fn is invoked once more for the
\* same item
ItemDoneInvokingAgain(value, outcome) ==
    /\ fbResults' = Push(fbResults, value)
    /\ outcomes' = Append(outcomes, outcome)
    /\ attempt' = attempt + 1
    /\ invocations' = invocations + 1
    /\ pc' = "translate"
    /\ UNCHANGED <<results, translations, batchPath, langIdx, fbIndex, lastError,
                   lastResponse, delayLog>>

\* One item of the fallback is settled: its result is pushed, and the loop goes
\* on to the next item (a new retryWithBackoff call) or returns
ItemDone(value, outcome) ==
    LET pushed == Push(fbResults, value) IN
    /\ fbResults' = pushed
    /\ outcomes' = Append(outcomes, outcome)
    /\ attempt' = 0
    /\ lastError' = None
    /\ lastResponse' = None
    /\ delayLog' = <<>>
    /\ IF fbIndex < N
       THEN /\ fbIndex' = fbIndex + 1
            /\ pc' = "translate"
            /\ invocations' = 1
            /\ UNCHANGED <<results, translations, batchPath, langIdx>>
       ELSE /\ CompleteLang(Return(pushed), "fallback")
            /\ invocations' = 0
            /\ UNCHANGED fbIndex

\* retryWithBackoff inside the fallback: the response to one call of translate
\* arrives
TranslateResponse ==
    /\ pc = "translate"
    /\ translateCalls' = translateCalls \cup {TranslateCall(fbIndex)}
    /\ \E response \in Responses(provider[1].name, {0, 1}) :
         LET r == Translate(provider[1], Texts[fbIndex], response) IN
         IF r.ok
         THEN ItemDone(r.value, [ok |-> TRUE, value |-> r.value])
         ELSE IF IsLastAttempt(attempt, Config.maxRetries)
              THEN \* thrown by retryWithBackoff, caught by the fallback
                   ItemDone(KeepOriginal(Texts, fbIndex), r)
              ELSE /\ lastError' = Some(r.error)
                   /\ lastResponse' = Some(response)
                   /\ delayLog' = Append(delayLog, BackoffDelay(Config.retryDelay, attempt))
                   /\ pc' = "delay"
                   /\ UNCHANGED <<results, translations, batchPath, langIdx, fbIndex,
                                  fbResults, outcomes, attempt, invocations>>
    /\ UNCHANGED <<utilVars, scanVars, fileVars, providers, extractedStrings, targetLanguages, providerName,
                   provider, providerCalled, batchCalls, thrown>>

\* retryWithBackoff: the delay is over and translate is called again
DelayElapsed ==
    /\ pc = "delay"
    /\ attempt' = attempt + 1
    /\ invocations' = invocations + 1
    /\ pc' = "translate"
    /\ UNCHANGED <<utilVars, scanVars, fileVars, providers, extractedStrings, targetLanguages, providerName,
                   provider, results, langIdx, translations, batchPath, fbIndex,
                   fbResults, outcomes, lastError, lastResponse, delayLog,
                   providerCalled, batchCalls, translateCalls, thrown>>

-----------------------------------------------------------------------------
(* Characters.  A character is a one-character string; a character outside *)
(* ASCII is written as its code point: "U+00E9" is e with acute accent,    *)
(* "U+00C9" its capital, "U+0301" the combining acute accent, "U+00A0" the *)
(* no-break space and "U+65E5" a CJK ideograph.                            *)

LowerCaseLetters ==
    <<"a", "b", "c", "d", "e", "f", "g", "h", "i", "j", "k", "l", "m",
      "n", "o", "p", "q", "r", "s", "t", "u", "v", "w", "x", "y", "z">>

UpperCaseLetters ==
    <<"A", "B", "C", "D", "E", "F", "G", "H", "I", "J", "K", "L", "M",
      "N", "O", "P", "Q", "R", "S", "T", "U", "V", "W", "X", "Y", "Z">>

Range(seq) == { seq[i] : i \in 1..Len(seq) }

AsciiDigits == {"0", "1", "2", "3", "4", "5", "6", "7", "8", "9"}

HexDigits == AsciiDigits \cup {"a", "b", "c", "d", "e", "f", "A", "B", "C", "D", "E", "F"}

\* The characters the class \s matches
WhitespaceChars == {" ", "\t", "\n", "\r", "U+00A0"}

\* The characters of the range U+0300 to U+036F
CombiningMarks == {"U+0301"}

IndexOf(seq, c) == CHOOSE i \in 1..Len(seq) : seq[i] = c

\* The canonical decomposition of one character
Decomposition(c) ==
    CASE c = "U+00E9" -> <<"e", "U+0301">>
      [] c = "U+00C9" -> <<"E", "U+0301">>
      [] OTHER -> <<c>>

RECURSIVE normalizeNFD(_)
\* String.prototype.normalize('NFD')
normalizeNFD(t) ==
    IF t = <<>> THEN <<>> ELSE Decomposition(Head(t)) \o normalizeNFD(Tail(t))

\* replace(/[U+0300-U+036F]/g, '')
RemoveAccents(t) == SelectSeq(t, LAMBDA c : c \notin CombiningMarks)

LowerCaseOf(c) ==
    IF c \in Range(UpperCaseLetters)
    THEN LowerCaseLetters[IndexOf(UpperCaseLetters, c)]
    ELSE IF c = "U+00C9" THEN "U+00E9" ELSE c

\* String.prototype.toLowerCase
toLowerCase(t) == [i \in 1..Len(t) |-> LowerCaseOf(t[i])]

\* The characters of the class [a-z0-9]
KeyChars == Range(LowerCaseLetters) \cup AsciiDigits

RECURSIVE SkipNonKeyChars(_)
SkipNonKeyChars(t) ==
    IF t # <<>> /\ Head(t) \notin KeyChars THEN SkipNonKeyChars(Tail(t)) ELSE t

RECURSIVE ReplaceNonKeyRuns(_)
\* replace(/[^a-z0-9]+/g, '_')
ReplaceNonKeyRuns(t) ==
    IF t = <<>> THEN <<>>
    ELSE IF Head(t) \in KeyChars THEN <<Head(t)>> \o ReplaceNonKeyRuns(Tail(t))
    ELSE <<"_">> \o ReplaceNonKeyRuns(SkipNonKeyChars(Tail(t)))

RECURSIVE DropLeadingUnderscores(_)
DropLeadingUnderscores(t) ==
    IF t # <<>> /\ Head(t) = "_" THEN DropLeadingUnderscores(Tail(t)) ELSE t

RECURSIVE DropTrailingUnderscores(_)
DropTrailingUnderscores(t) ==
    IF t # <<>> /\ t[Len(t)] = "_"
    THEN DropTrailingUnderscores(SubSeq(t, 1, Len(t) - 1))
    ELSE t

\* replace(/^_+|_+$/g, '')
StripUnderscores(t) == DropTrailingUnderscores(DropLeadingUnderscores(t))

\* String.prototype.substring(0, end)
substring(t, end) ==
    SubSeq(t, 1, IF end < 0 THEN 0 ELSE IF end > Len(t) THEN Len(t) ELSE end)

\* Default of the parameter maxLength of generateTranslationKey
DefaultMaxLength == 50

\* The length FileScanner.generateKey cuts the key to
ScannerKeyLength == 50

\* generateTranslationKey(str, maxLength) of utils/translation-utils.ts
generateTranslationKey(str, maxLen) ==
    substring(
        StripUnderscores(
            ReplaceNonKeyRuns(toLowerCase(RemoveAccents(normalizeNFD(str.text))))),
        maxLen)

\* The key derivation without the removal of the accents
generateKeyAccented(str) ==
    substring(StripUnderscores(ReplaceNonKeyRuns(toLowerCase(normalizeNFD(str.text)))),
              ScannerKeyLength)

\* FileScanner.generateKey(str) of scanner.ts
generateKey(str) ==
    LET normalized == normalizeNFD(str.text)
        unaccented == RemoveAccents(normalized)
        lowered    == toLowerCase(unaccented)
        replaced   == ReplaceNonKeyRuns(lowered)
        stripped   == StripUnderscores(replaced)
    IN  substring(stripped, ScannerKeyLength)

\* TranslationFileGenerator.generateKey(str) of translator.ts
FileGeneratorKey(str) == generateTranslationKey(str, DefaultMaxLength)

-----------------------------------------------------------------------------
(* The classifier *)

\* /^[\s\n\r]*$/.test(text)
IsOnlyWhitespace(t) == \A i \in 1..Len(t) : t[i] \in WhitespaceChars \cup {"\n", "\r"}

IdentifierStart == Range(LowerCaseLetters) \cup Range(UpperCaseLetters) \cup {"_", "$"}

IdentifierPart == IdentifierStart \cup AsciiDigits

\* /^[a-zA-Z_$][a-zA-Z0-9_$]*$/.test(text)
IsVariableName(t) ==
    /\ Len(t) >= 1
    /\ t[1] \in IdentifierStart
    /\ \A i \in 2..Len(t) : t[i] \in IdentifierPart

\* /^[./\\]+$/.test(text)
IsRelativePath(t) ==
    Len(t) >= 1 /\ \A i \in 1..Len(t) : t[i] \in {".", "/", "\\"}

RECURSIVE DigitRunEnd(_, _)
\* The position after the longest run of \d that starts at position i
DigitRunEnd(t, i) ==
    IF i <= Len(t) /\ t[i] \in AsciiDigits THEN DigitRunEnd(t, i + 1) ELSE i

\* /^\d+$/.test(text)
IsPureNumberIntegerOnly(t) == DigitRunEnd(t, 1) > 1 /\ DigitRunEnd(t, 1) = Len(t) + 1

\* /^\d+(\.\d+)?$/.test(text)
IsPureNumber(t) ==
    LET intEnd == DigitRunEnd(t, 1) IN
    /\ intEnd > 1
    /\ \/ intEnd = Len(t) + 1
       \/ /\ intEnd <= Len(t)
          /\ t[intEnd] = "."
          /\ LET fracEnd == DigitRunEnd(t, intEnd + 1)
             IN  fracEnd > intEnd + 1 /\ fracEnd = Len(t) + 1

\* /^#[0-9a-fA-F]{3,8}$/.test(text)
IsHexColor(t) ==
    /\ Len(t) >= 1
    /\ t[1] = "#"
    /\ Len(t) - 1 >= 3
    /\ Len(t) - 1 <= 8
    /\ \A i \in 2..Len(t) : t[i] \in HexDigits

\* String.prototype.includes
includes(t, search) ==
    \E i \in 1..(Len(t) - Len(search) + 1) : SubSeq(t, i, i + Len(search) - 1) = search

ClassNameText == <<"c", "l", "a", "s", "s", "N", "a", "m", "e">>

OnClickText == <<"o", "n", "C", "l", "i", "c", "k">>

\* shouldExtractString(text) of utils/translation-utils.ts
shouldExtractString(t) ==
    IF t = <<>> \/ Len(t) < 2 THEN FALSE
    ELSE IF IsOnlyWhitespace(t) THEN FALSE
    ELSE IF IsVariableName(t) THEN FALSE
    ELSE IF IsRelativePath(t) THEN FALSE
    ELSE IF IsPureNumber(t) THEN FALSE
    ELSE IF IsHexColor(t) THEN FALSE
    ELSE IF includes(t, ClassNameText) \/ includes(t, OnClickText) THEN FALSE
    ELSE TRUE

\* ReactParser.shouldExtract(text)
shouldExtract(t) ==
    CASE t = <<>> \/ Len(t) < 2 -> FALSE
      [] OTHER ->
         ~ \/ IsOnlyWhitespace(t)
           \/ IsVariableName(t)
           \/ IsRelativePath(t)
           \/ IsPureNumber(t)
           \/ IsHexColor(t)
           \/ includes(t, ClassNameText)
           \/ includes(t, OnClickText)

-----------------------------------------------------------------------------
(* The texts the utilities are applied to *)

MaxTextLen == 3

MaxKeyLength == 3

TextAlphabet == {"a", "Z", "7", "_", " ", ".", "/", "#", "U+00E9", "U+65E5"}

\* A text whose 50th character is a space
LongText == [i \in 1..52 |-> IF i = 50 THEN " " ELSE "a"]

\* Texts of the README and of the usage examples
SampleTexts ==
    { <<".", "/", "s", "r", "c", "/", "A", "p", "p">>,
      <<".", "/", "s", "r", "c", "/", "c", "o", "m", "p", "o", "n", "e", "n", "t">>,
      <<"o", "n", "C", "l", "i", "c", "k">>,
      <<"c", "l", "a", "s", "s", "N", "a", "m", "e">>,
      <<"4", "2">>,
      <<"3", ".", "1", "4">>,
      <<"3", ".">>,
      <<"#", "F", "F", "0", "0", "0", "0">>,
      <<"#", "f", "f", "f">>,
      <<"#", "f", "f">>,
      <<"#", "1", "2", "3", "4", "5", "6", "7", "8", "9">>,
      <<"#", "g", "g", "g">>,
      <<"B", "o", "n", "j", "o", "u", "r", " ", "m", "o", "n", "d", "e">>,
      <<"h", "a", "n", "d", "l", "e", " ", "o", "n", "C", "l", "i", "c", "k", " ", "n", "o", "w">>,
      <<"s", "r", "c", "\\", "A", "p", "p">>,
      <<".", ".", "\\">>,
      <<"x", "1">>,
      <<"$", "s", "c", "o", "p", "e">>,
      <<"C", "o", "n", "f", "i", "r", "m", "e", "r">>,
      LongText }

TextInputs ==
    SampleTexts \cup UNION { [1..n -> TextAlphabet] : n \in 0..MaxTextLen }

\* The values of the argument maxLength: omitted, or a length
MaxLengths == { None } \cup { Some(l) : l \in 0..MaxKeyLength }

MaxLengthOf(opt) == IF opt = None THEN DefaultMaxLength ELSE opt[1]

-----------------------------------------------------------------------------
(* Calls of the text utilities *)

ShouldExtractString ==
    /\ utilCall = "none"
    /\ extracted' = Some(shouldExtractString(inputText))
    /\ utilCall' = "shouldExtractString"
    /\ UNCHANGED <<serviceVars, scanVars, fileVars, inputText, maxLength, derivedKey, rederivedKey,
                   exportedKey>>

\* ReactParser.shouldExtract
ShouldExtract ==
    /\ utilCall = "none"
    /\ extracted' = Some(shouldExtract(inputText))
    /\ utilCall' = "shouldExtract"
    /\ UNCHANGED <<serviceVars, scanVars, fileVars, inputText, maxLength, derivedKey, rederivedKey,
                   exportedKey>>

\* FileScanner.exportToJSON writes the key of the text into the report
ExportToJSON ==
    /\ utilCall = "none"
    /\ exportedKey' = Some(generateKey([text |-> inputText]))
    /\ utilCall' = "exportToJSON"
    /\ UNCHANGED <<serviceVars, scanVars, fileVars, inputText, extracted, maxLength, derivedKey,
                   rederivedKey>>

\* TranslationFileGenerator.buildTranslationMap derives the key under which the
\* translation of the exported text is stored
BuildTranslationMap ==
    /\ utilCall = "exportToJSON"
    /\ derivedKey' = Some(FileGeneratorKey([text |-> inputText]))
    /\ utilCall' = "buildTranslationMap"
    /\ UNCHANGED <<serviceVars, scanVars, fileVars, inputText, extracted, maxLength, rederivedKey,
                   exportedKey>>

\* generateTranslationKey called with maxLength `len`
GenerateTranslationKey(len) ==
    /\ utilCall = "none"
    /\ maxLength' = len
    /\ derivedKey' = Some(generateTranslationKey([text |-> inputText], MaxLengthOf(len)))
    /\ utilCall' = "generateTranslationKey"
    /\ UNCHANGED <<serviceVars, scanVars, fileVars, inputText, extracted, rederivedKey, exportedKey>>

\* generateTranslationKey is applied to the key it returned
RederiveKey ==
    /\ utilCall = "generateTranslationKey"
    /\ rederivedKey = None
    /\ rederivedKey' =
           Some(generateTranslationKey([text |-> derivedKey[1]], MaxLengthOf(maxLength)))
    /\ UNCHANGED <<serviceVars, scanVars, fileVars, inputText, utilCall, extracted, maxLength, derivedKey,
                   exportedKey>>

\* No utility call was made
UtilIdle ==
    /\ utilCall = "none"
    /\ extracted = None
    /\ maxLength = None
    /\ derivedKey = None
    /\ rederivedKey = None
    /\ exportedKey = None

-----------------------------------------------------------------------------
(* Syntax trees.  The tree @babel/parser returns is the sequence of its     *)
(* nodes in document order, which is the order traverse enters them; node 1 *)
(* is the File, node 2 its Program, and every other node names its parent.  *)
(* The statement and expression nodes that carry no string and that no      *)
(* visitor looks at are left out.                                           *)

MaxNodes == 5

MaxFiles == 2

AstNode(kind, parent, name, value, quasis, expressions) ==
    [kind |-> kind, parent |-> parent, name |-> name, value |-> value,
     quasis |-> quasis, expressions |-> expressions]

InnerNode(kind, parent, name) == AstNode(kind, parent, name, <<>>, <<>>, <<>>)

\* The kinds a child of a node of each kind may have
ChildKinds(kind) ==
    CASE kind = "Program" ->
            {"VariableDeclarator", "CallExpression", "JSXElement", "ObjectProperty"}
      [] kind = "VariableDeclarator" ->
            {"StringLiteral", "TemplateLiteral", "JSXElement", "JSXFragment",
             "CallExpression", "ObjectProperty"}
      [] kind = "ObjectProperty" -> {"StringLiteral", "TemplateLiteral"}
      [] kind = "CallExpression" -> {"StringLiteral", "TemplateLiteral", "JSXElement"}
      [] kind = "JSXElement" ->
            {"JSXOpeningElement", "JSXText", "JSXExpressionContainer", "JSXElement",
             "JSXFragment"}
      [] kind = "JSXFragment" -> {"JSXText", "JSXExpressionContainer", "JSXElement"}
      [] kind = "JSXOpeningElement" -> {"JSXAttribute"}
      [] kind = "JSXAttribute" -> {"StringLiteral", "JSXExpressionContainer"}
      [] kind = "JSXExpressionContainer" ->
            {"StringLiteral", "TemplateLiteral", "CallExpression", "JSXElement"}
      [] OTHER -> {}

\* The kinds of node that hold one child at most
SingleChildKinds ==
    {"VariableDeclarator", "ObjectProperty", "JSXAttribute", "JSXExpressionContainer"}

TextCliquezIci == <<"C", "l", "i", "q", "u", "e", "z", " ", "i", "c", "i">>

TextConfirmer == <<"C", "o", "n", "f", "i", "r", "m", "e", "r">>

TextBonjourMonde == <<"B", "o", "n", "j", "o", "u", "r", " ", "m", "o", "n", "d", "e">>

TextErreur == <<"E", "r", "r", "e", "u", "r", " ", "d", "e", " ", "v", "a", "l", "i", "d", "a", "t", "i", "o", "n">>

\* A segment of a template literal whose cooked value is its raw text
Quasi(t) == [cooked |-> Some(t), raw |-> t]

\* An interpolated expression: its node type, its name if it is an identifier,
\* and its source text
Expression(kind, name, source) == [kind |-> kind, name |-> name, source |-> source]

TextBonjour ==
    <<"B", "o", "n", "j", "o", "u", "r", " ">>

TextName ==
    <<"n", "a", "m", "e">>

\* `Bonjour ${name}`
TemplateBonjour ==
    [quasis |-> << Quasi(TextBonjour), Quasi(<<>>) >>,
     expressions |-> << Expression("Identifier", TextName, TextName) >>]

TextUserName ==
    <<"u", "s", "e", "r", ".", "n", "a", "m", "e">>

TextCountPlusOne ==
    <<"c", "o", "u", "n", "t", " ", "+", " ", "1">>

\* `${user.name} a ${count + 1} messages`
TemplateMessages ==
    [quasis |-> << Quasi(<<>>), Quasi(<<" ", "a", " ">>),
                   Quasi(<<" ", "m", "e", "s", "s", "a", "g", "e", "s">>) >>,
     expressions |-> << Expression("MemberExpression", <<>>, TextUserName),
                        Expression("BinaryExpression", <<>>, TextCountPlusOne) >>]

\* The template literal type `id de ${string}`, and a segment with the escape
\* \n, whose raw text differs from its cooked value
TemplateType ==
    [quasis |-> << [cooked |-> Some(<<"i", "d", " ", "d", "e", "\n">>),
                    raw |-> <<"i", "d", " ", "d", "e", "\\", "n">>],
                   Quasi(<<>>) >>,
     expressions |-> << Expression("TSType", <<>>, <<"s", "t", "r", "i", "n", "g">>) >>]

\* A segment of a tagged template with an invalid escape has no cooked value:
\* the segments of `\unicode et ${name}`
TemplateUncooked ==
    [quasis |-> << [cooked |-> None,
                    raw |-> <<"\\", "u", "n", "i", "c", "o", "d", "e", " ", "e", "t", " ">>],
                   Quasi(<<>>) >>,
     expressions |-> << Expression("Identifier", TextName, TextName) >>]

Templates == {TemplateBonjour, TemplateMessages, TemplateType, TemplateUncooked}

\* The nodes of one kind the enumerated trees are built from
NodesOfKind(kind, parent) ==
    CASE kind = "StringLiteral" ->
            { AstNode(kind, parent, "", v, <<>>, <<>>) :
                  v \in {TextCliquezIci, TextConfirmer} }
      [] kind = "JSXText" ->
            { AstNode(kind, parent, "", <<"\n", " ">> \o TextBonjourMonde \o <<"\n">>,
                      <<>>, <<>>) }
      [] kind = "TemplateLiteral" ->
            { AstNode(kind, parent, "", <<>>, tpl.quasis, tpl.expressions) :
                  tpl \in Templates }
      [] kind = "VariableDeclarator" -> { InnerNode(kind, parent, "message") }
      [] kind = "ObjectProperty" -> { InnerNode(kind, parent, "required") }
      [] kind = "JSXElement" -> { InnerNode(kind, parent, "Button") }
      [] kind = "JSXAttribute" -> { InnerNode(kind, parent, "label") }
      [] OTHER -> { InnerNode(kind, parent, "") }

EmptyTree == << InnerNode("File", 0, ""), InnerNode("Program", 1, "") >>

RECURSIVE AncestorsOrSelf(_, _)
AncestorsOrSelf(tree, i) ==
    IF i = 0 THEN {} ELSE {i} \cup AncestorsOrSelf(tree, tree[i].parent)

Ancestors(tree, i) == AncestorsOrSelf(tree, tree[i].parent)

ChildrenOf(tree, p) == { j \in 1..Len(tree) : tree[j].parent = p }

\* The kinds a next node in document order may have as a child of node p
OpenKinds(tree, p) ==
    IF tree[p].kind \in SingleChildKinds /\ ChildrenOf(tree, p) # {} THEN {}
    ELSE { k \in ChildKinds(tree[p].kind) :
               k = "JSXOpeningElement" => ChildrenOf(tree, p) = {} }

\* The trees with one more node in document order
Extensions(tree) ==
    { Append(tree, n) :
        n \in UNION { UNION { NodesOfKind(k, p) : k \in OpenKinds(tree, p) } :
                        p \in AncestorsOrSelf(tree, Len(tree)) } }

-----------------------------------------------------------------------------
(* ReactParser *)

RECURSIVE DropLeadingWhitespace(_)
DropLeadingWhitespace(t) ==
    IF t # <<>> /\ Head(t) \in WhitespaceChars THEN DropLeadingWhitespace(Tail(t)) ELSE t

RECURSIVE DropTrailingWhitespace(_)
DropTrailingWhitespace(t) ==
    IF t # <<>> /\ t[Len(t)] \in WhitespaceChars
    THEN DropTrailingWhitespace(SubSeq(t, 1, Len(t) - 1))
    ELSE t

\* String.prototype.trim of a sequence of characters
trimText(t) == DropTrailingWhitespace(DropLeadingWhitespace(t))

\* path.parentPath: the path of the parent node, 0 (null) for the Program path
ParentPath(tree, path) ==
    IF tree[path].kind = "Program" THEN 0 ELSE tree[path].parent

RECURSIVE IsInJSXLoop(_, _, _)
\* The while loop of isInJSX with its locals parent and path
IsInJSXLoop(tree, parent, path) ==
    IF parent = 0 THEN FALSE
    ELSE IF tree[parent].kind \in {"JSXElement", "JSXFragment"} THEN TRUE
    ELSE LET parentPath == ParentPath(tree, path)
         IN  IsInJSXLoop(tree,
                         IF parentPath = 0 THEN 0 ELSE tree[parentPath].parent,
                         parentPath)

\* A test of the immediate parent only
isInJSXParentOnly(tree, i) ==
    tree[tree[i].parent].kind \in {"JSXElement", "JSXFragment"}

\* ReactParser.isInJSX(path)
isInJSX(tree, i) == IsInJSXLoop(tree, tree[i].parent, i)

RECURSIVE findParent(_, _, _)
\* path.findParent(p => p.node is of `kind`): the nearest such ancestor path, 0 if none
findParent(tree, i, kind) ==
    LET parentPath == ParentPath(tree, i) IN
    IF parentPath = 0 THEN 0
    ELSE IF tree[parentPath].kind = kind THEN parentPath
    ELSE findParent(tree, parentPath, kind)

getJSXContext(tree, i) ==
    LET parent == findParent(tree, i, "JSXElement") IN
    IF parent # 0 THEN <<"<", tree[parent].name, ">">> ELSE <<"JSX">>

getJSXAttributeContext(tree, i) ==
    LET jsxAttribute == findParent(tree, i, "JSXAttribute") IN
    IF jsxAttribute # 0 THEN <<"JSX attribute: ", tree[jsxAttribute].name>>
    ELSE <<"JSX attribute">>

getVariableContext(tree, i) ==
    LET variableDeclarator == findParent(tree, i, "VariableDeclarator")
        property == findParent(tree, i, "ObjectProperty")
    IN  IF variableDeclarator # 0 THEN <<"Variable: ", tree[variableDeclarator].name>>
        ELSE IF property # 0 THEN <<"Object property: ", tree[property].name>>
        ELSE <<"String literal">>

\* Mutant of getExpressionPlaceholder: the source text of the expression
getExpressionSource(expr) == expr.source

getExpressionPlaceholder(expr) ==
    CASE expr.kind = "Identifier" -> expr.name
      [] expr.kind = "MemberExpression" -> <<"v", "a", "l", "u", "e">>
      [] expr.kind = "TSType" -> <<"t", "y", "p", "e">>
      [] OTHER -> <<"e", "x", "p", "r", "e", "s", "s", "i", "o", "n">>

RECURSIVE ReconstructFrom(_, _)
\* The for loop of reconstructTemplateLiteral from index i on
ReconstructFrom(node, i) ==
    IF i > Len(node.quasis) THEN <<>>
    ELSE LET quasi == node.quasis[i]
             segment == IF Truthy(quasi.cooked) /\ quasi.cooked[1] # <<>>
                        THEN quasi.cooked[1] ELSE quasi.raw
             placeholder ==
                 IF i <= Len(node.expressions)
                 THEN <<"{">> \o getExpressionPlaceholder(node.expressions[i]) \o <<"}">>
                 ELSE <<>>
         IN  segment \o placeholder \o ReconstructFrom(node, i + 1)

reconstructTemplateLiteral(node) == ReconstructFrom(node, 1)

\* The object a visitor pushes; the location of a node is its place in the walk
NewExtractedString(text, i, context, type) ==
    [text |-> text, line |-> i, column |-> 0, context |-> context, type |-> type]

\* path.node.expression of a JSXExpressionContainer, 0 for the empty expression {}
ExpressionOf(tree, i) ==
    IF ChildrenOf(tree, i) = {} THEN 0 ELSE CHOOSE j \in ChildrenOf(tree, i) : TRUE

\* The JSXText visitor, applied to node i with this.extractedStrings = strings
JSXTextVisitor(tree, i, strings) ==
    LET text == trimText(tree[i].value) IN
    IF shouldExtract(text)
    THEN Append(strings, NewExtractedString(text, i, getJSXContext(tree, i), "jsx_text"))
    ELSE strings

\* The JSXExpressionContainer visitor
JSXExpressionContainerVisitor(tree, i, strings) ==
    LET expression == ExpressionOf(tree, i) IN
    IF expression # 0 /\ tree[expression].kind = "StringLiteral"
    THEN LET text == tree[expression].value IN
         IF shouldExtract(text)
         THEN Append(strings, NewExtractedString(text, i, getJSXAttributeContext(tree, i),
                                                 "jsx_attribute"))
         ELSE strings
    ELSE strings

\* The StringLiteral visitor
StringLiteralVisitor(tree, i, strings) ==
    IF isInJSX(tree, i) THEN strings
    ELSE LET text == tree[i].value IN
         IF shouldExtract(text)
         THEN Append(strings, NewExtractedString(text, i, getVariableContext(tree, i),
                                                 "string_literal"))
         ELSE strings

\* The TemplateLiteral visitor
TemplateLiteralVisitor(tree, i, strings) ==
    IF isInJSX(tree, i) THEN strings
    ELSE LET text == reconstructTemplateLiteral(tree[i]) IN
         IF shouldExtract(text)
         THEN Append(strings, NewExtractedString(text, i, getVariableContext(tree, i),
                                                 "template_literal"))
         ELSE strings

VisitedKinds == {"JSXText", "JSXExpressionContainer", "StringLiteral", "TemplateLiteral"}

\* traverse enters node i
Visit(tree, i, strings) ==
    CASE tree[i].kind = "JSXText" -> JSXTextVisitor(tree, i, strings)
      [] tree[i].kind = "JSXExpressionContainer" ->
            JSXExpressionContainerVisitor(tree, i, strings)
      [] tree[i].kind = "StringLiteral" -> StringLiteralVisitor(tree, i, strings)
      [] tree[i].kind = "TemplateLiteral" -> TemplateLiteralVisitor(tree, i, strings)
      [] OTHER -> strings

RECURSIVE TraverseFrom(_, _, _)
\* traverse(ast, visitors) from node i on
TraverseFrom(tree, i, strings) ==
    IF i > Len(tree) THEN strings
    ELSE TraverseFrom(tree, i + 1, Visit(tree, i, strings))

\* What parseFile returns for a file
ParseFileResult(file) ==
    IF file.kind = "source" THEN TraverseFrom(file.tree, 2, <<>>) ELSE <<>>

-----------------------------------------------------------------------------
(* The files of a project *)

SourceFile(path, tree) == [path |-> path, kind |-> "source", tree |-> tree]

\* A file that readFileSync or parse rejects
FailingFile(path, kind) == [path |-> path, kind |-> kind, tree |-> <<>>]

\* <Button label={"Cliquez ici"}>Bonjour monde</Button>
ButtonFile ==
    SourceFile("src/components/Button.tsx",
        EmptyTree \o
        << InnerNode("JSXElement", 2, "Button"),
           InnerNode("JSXOpeningElement", 3, ""),
           InnerNode("JSXAttribute", 4, "label"),
           InnerNode("JSXExpressionContainer", 5, ""),
           AstNode("StringLiteral", 6, "", TextCliquezIci, <<>>, <<>>),
           AstNode("JSXText", 3, "", TextBonjourMonde, <<>>, <<>>) >>)

\* const name = "Confirmer"
HelpersFile ==
    SourceFile("src/utils/helpers.ts",
        EmptyTree \o
        << InnerNode("VariableDeclarator", 2, "name"),
           AstNode("StringLiteral", 3, "", TextConfirmer, <<>>, <<>>) >>)

\* const message = "Erreur de validation"
MessagesFile ==
    SourceFile("src/messages.ts",
        EmptyTree \o
        << InnerNode("VariableDeclarator", 2, "message"),
           AstNode("StringLiteral", 3, "", TextErreur, <<>>, <<>>) >>)

TextBienvenue ==
    <<"B", "i", "e", "n", "v", "e", "n", "u", "e", " ", "s", "u", "r", " ", "n", "o",
      "t", "r", "e", " ", "a", "p", "p", "l", "i", "c", "a", "t", "i", "o", "n">>

TextActionConfirmee ==
    <<"A", "c", "t", "i", "o", "n", " ", "c", "o", "n", "f", "i", "r", "m", "U+00E9", "e">>

TextContinuer ==
    <<"C", "o", "n", "t", "i", "n", "u", "e", "r">>

TextContentDeVousVoir ==
    <<",", " ", "c", "o", "n", "t", "e", "n", "t", " ", "d", "e", " ", "v", "o", "u",
      "s", " ", "v", "o", "i", "r", " ", "!">>

\* The line break and the indentation between two JSX children
TextIndent == <<"\n", " ", " ">>

\* `Bonjour ${name}, content de vous voir !`
TemplateSubtitle ==
    [quasis |-> << Quasi(TextBonjour), Quasi(TextContentDeVousVoir) >>,
     expressions |-> << Expression("Identifier", TextName, TextName) >>]

\* The component Welcome of examples/usage-examples.md: the declarators of
\* Welcome, greeting and subtitle, then the returned <div> with its <h1>, its
\* <p> and its <button onClick={() => alert("Action confirmee")}>
WelcomeFile ==
    SourceFile("src/components/Welcome.tsx",
        EmptyTree \o
        << InnerNode("VariableDeclarator", 2, "Welcome"),
           InnerNode("VariableDeclarator", 3, "greeting"),
           AstNode("StringLiteral", 4, "", TextBienvenue, <<>>, <<>>),
           InnerNode("VariableDeclarator", 3, "subtitle"),
           AstNode("TemplateLiteral", 6, "", <<>>, TemplateSubtitle.quasis,
                   TemplateSubtitle.expressions),
           InnerNode("JSXElement", 3, "div"),
           InnerNode("JSXOpeningElement", 8, ""),
           AstNode("JSXText", 8, "", TextIndent, <<>>, <<>>),
           InnerNode("JSXElement", 8, "h1"),
           InnerNode("JSXOpeningElement", 11, ""),
           InnerNode("JSXExpressionContainer", 11, ""),
           AstNode("JSXText", 8, "", TextIndent, <<>>, <<>>),
           InnerNode("JSXElement", 8, "p"),
           InnerNode("JSXOpeningElement", 15, ""),
           InnerNode("JSXExpressionContainer", 15, ""),
           AstNode("JSXText", 8, "", TextIndent, <<>>, <<>>),
           InnerNode("JSXElement", 8, "button"),
           InnerNode("JSXOpeningElement", 19, ""),
           InnerNode("JSXAttribute", 20, "onClick"),
           InnerNode("JSXExpressionContainer", 21, ""),
           InnerNode("CallExpression", 22, ""),
           AstNode("StringLiteral", 23, "", TextActionConfirmee, <<>>, <<>>),
           AstNode("JSXText", 19, "", TextIndent \o TextContinuer \o TextIndent,
                   <<>>, <<>>),
           AstNode("JSXText", 8, "", TextIndent, <<>>, <<>>) >>)

ProjectFiles ==
    { ButtonFile, HelpersFile, MessagesFile, WelcomeFile,
      FailingFile("src/broken.tsx", "syntaxError"),
      FailingFile("src/missing.ts", "unreadable") }

\* The file whose syntax tree grows node by node while it is edited
AppFile(tree) == SourceFile("src/App.tsx", tree)

\* What glob may yield: the file under edit, or project files in any order
FileLists ==
    { <<AppFile(EmptyTree)>> }
        \cup { fs \in SeqsUpTo(ProjectFiles, MaxFiles) :
                 \A i, j \in 1..Len(fs) : i # j => fs[i] # fs[j] }

-----------------------------------------------------------------------------
(* FileScanner.scan, generateSummary and exportToJSON, as the scan command  *)
(* of the CLI calls them                                                    *)

CurFile == files[fileIdx]

CurTree == CurFile.tree

\* The array a reference points to
Deref(ref) == heap[ref]

\* The for-of loop of scan goes on to the next file, or scan returns
NextFile ==
    /\ fileIdx' = fileIdx + 1
    /\ scanPc' = IF fileIdx < Len(files) THEN "file" ELSE "scanned"

\* Before the scan, the file under edit gets one more node at its end
EditFile ==
    /\ scanPc = "idle"
    /\ Len(files) = 1
    /\ files[1].path = AppFile(EmptyTree).path
    /\ Len(files[1].tree) < Len(EmptyTree) + MaxNodes
    /\ \E tree \in Extensions(files[1].tree) : files' = <<AppFile(tree)>>
    /\ UNCHANGED <<serviceVars, utilVars, fileVars, scanPc, fileIdx, cursor, heap, parserStrings,
                   scanResults, summary, report>>

\* scan: glob yields the files
Scan ==
    /\ scanPc = "idle"
    /\ scanResults' = <<>>
    /\ fileIdx' = 1
    /\ scanPc' = IF files = <<>> THEN "scanned" ELSE "file"
    /\ UNCHANGED <<serviceVars, utilVars, fileVars, files, cursor, heap, parserStrings, summary,
                   report>>

\* scan: glob rejects, the outer catch returns []
ScanGlobFails ==
    /\ scanPc = "idle"
    /\ files' = <<>>
    /\ scanResults' = <<>>
    /\ scanPc' = "scanned"
    /\ UNCHANGED <<serviceVars, utilVars, fileVars, fileIdx, cursor, heap, parserStrings, summary,
                   report>>

\* this.extractedStrings = [] without a new array: the old one is kept
ResetKeepingArray(h, ref) == [heap |-> h, ref |-> ref]

\* this.extractedStrings.length = 0: the array is emptied in place
ResetClearingInPlace(h, ref) == [heap |-> [h EXCEPT ![ref] = <<>>], ref |-> ref]

\* this.extractedStrings = []
ResetExtractedStrings(h, ref) == [heap |-> Append(h, <<>>), ref |-> Len(h) + 1]

\* parseFile is entered for the current file: the array is reset, the file is
\* read and parsed; a failure is caught and [] returned, which scan skips
ParseFile ==
    /\ scanPc = "file"
    /\ LET reset == ResetExtractedStrings(heap, parserStrings) IN
       /\ heap' = reset.heap
       /\ parserStrings' = reset.ref
    /\ IF CurFile.kind = "source"
       THEN /\ cursor' = 2
            /\ scanPc' = "traverse"
            /\ UNCHANGED fileIdx
       ELSE /\ NextFile
            /\ UNCHANGED cursor
    /\ UNCHANGED <<serviceVars, utilVars, fileVars, files, scanResults, summary, report>>

\* traverse enters the node at the cursor and runs the visitor of its kind
Enter(kind) ==
    /\ scanPc = "traverse"
    /\ cursor <= Len(CurTree)
    /\ CurTree[cursor].kind = kind
    /\ heap' = [heap EXCEPT ![parserStrings] = Visit(CurTree, cursor, @)]
    /\ cursor' = cursor + 1
    /\ UNCHANGED <<serviceVars, utilVars, fileVars, files, scanPc, fileIdx, parserStrings,
                   scanResults, summary, report>>

EnterJSXText == Enter("JSXText")

EnterJSXExpressionContainer == Enter("JSXExpressionContainer")

EnterStringLiteral == Enter("StringLiteral")

EnterTemplateLiteral == Enter("TemplateLiteral")

\* A node no visitor is registered for
EnterOtherNode ==
    /\ scanPc = "traverse"
    /\ cursor <= Len(CurTree)
    /\ CurTree[cursor].kind \notin VisitedKinds
    /\ cursor' = cursor + 1
    /\ UNCHANGED <<serviceVars, utilVars, fileVars, files, scanPc, fileIdx, heap, parserStrings,
                   scanResults, summary, report>>

\* Mutant of PushResult: the new entry goes to the front
PushResultFront(rs, entry) == <<entry>> \o rs

\* The ScanResult array with one more entry
PushResult(rs, entry) == Append(rs, entry)

\* The walk is over: parseFile returns this.extractedStrings, and scan pushes
\* the file's entry if the array is not empty
ParseFileReturn ==
    /\ scanPc = "traverse"
    /\ cursor > Len(CurTree)
    /\ scanResults' =
           IF Len(Deref(parserStrings)) > 0
           THEN PushResult(scanResults, [file |-> CurFile.path, strings |-> parserStrings])
           ELSE scanResults
    /\ NextFile
    /\ UNCHANGED <<serviceVars, utilVars, fileVars, files, cursor, heap, parserStrings, summary,
                   report>>

RECURSIVE TotalStrings(_)
\* results.reduce((sum, result) => sum + result.strings.length, 0)
TotalStrings(rs) ==
    IF rs = <<>> THEN 0 ELSE Len(Deref(Head(rs).strings)) + TotalStrings(Tail(rs))

\* The strings of all results, in order
AllStrings(rs) ==
    IF rs = <<>> THEN <<>>
    ELSE LET F[k \in 0..Len(rs)] ==
                 IF k = 0 THEN <<>> ELSE F[k - 1] \o Deref(rs[k].strings)
         IN  F[Len(rs)]

\* The typeCount map of generateSummary
TypeCount(rs) ==
    LET all == AllStrings(rs)
        types == { all[k].type : k \in 1..Len(all) }
    IN  [type \in types |-> Cardinality({ k \in 1..Len(all) : all[k].type = type })]

GenerateSummary ==
    /\ scanPc = "scanned"
    /\ summary' = Some([totalFiles |-> Len(scanResults),
                        totalStrings |-> TotalStrings(scanResults),
                        typeCount |-> TypeCount(scanResults)])
    /\ scanPc' = "summarised"
    /\ UNCHANGED <<serviceVars, utilVars, fileVars, files, fileIdx, cursor, heap, parserStrings,
                   scanResults, report>>

\* One entry of exportData.files
ExportedFile(result) ==
    LET strings == Deref(result.strings) IN
    [file |-> result.file,
     stringCount |-> Len(strings),
     strings |-> [k \in 1..Len(strings) |->
                     [text |-> strings[k].text, line |-> strings[k].line,
                      column |-> strings[k].column, context |-> strings[k].context,
                      type |-> strings[k].type, key |-> generateKey(strings[k])]]]

\* exportToJSON writes the report (its timestamp left out)
ExportResults ==
    /\ scanPc = "summarised"
    /\ report' = Some([totalFiles |-> Len(scanResults),
                       totalStrings |-> TotalStrings(scanResults),
                       files |-> [k \in 1..Len(scanResults) |->
                                     ExportedFile(scanResults[k])]])
    /\ scanPc' = "exported"
    /\ UNCHANGED <<serviceVars, utilVars, fileVars, files, fileIdx, cursor, heap, parserStrings,
                   scanResults, summary>>

\* A FileScanner with its ReactParser after construction, no scan running
ScannerInit ==
    /\ scanPc = "idle"
    /\ fileIdx = 0
    /\ cursor = 0
    /\ heap = << <<>> >>
    /\ parserStrings = 1
    /\ scanResults = <<>>
    /\ summary = None
    /\ report = None

-----------------------------------------------------------------------------
(* TranslationFileGenerator *)

MaxEntries == 3

TextSaveFile == <<"S", "a", "v", "e", " ", "f", "i", "l", "e">>

TextSaveFileDashed == <<"s", "a", "v", "e", "-", "f", "i", "l", "e">>

TextHelloWorld == <<"H", "e", "l", "l", "o", " ", "w", "o", "r", "l", "d">>

\* A text of two CJK ideographs
TextIdeographs == <<"U+65E5", "U+672C">>

\* Texts the classifier accepts; the first two derive the same key
AcceptedTexts == { TextSaveFile, TextSaveFileDashed, TextHelloWorld, TextIdeographs }

\* The extracted strings handed to generateFiles
GenStringLists ==
    { [i \in 1..Len(ts) |-> [text |-> ts[i], context |-> <<"String literal">>]] :
          ts \in SeqsUpTo(AcceptedTexts, MaxEntries) }

\* The TranslationResult translateStrings stores for a string
ResultFor(str, lang) ==
    [originalText |-> str.text, translatedText |-> <<lang, ":">> \o str.text,
     language |-> lang, context |-> str.context]

\* The Maps translateStrings may return for the strings: an entry per language,
\* each holding results for the first n strings
GenTranslationMaps(strs) ==
    { [l \in 1..Len(langs) |->
          [language |-> langs[l],
           results |-> [i \in 1..n |-> ResultFor(strs[i], langs[l])]]] :
          langs \in { <<>>, <<"fr">>, <<"fr", "es">> },
          n \in { k \in {Len(strs) - 1, Len(strs)} : k >= 0 } }

\* obj[key] = value on a plain object, without replacing an existing property
ObjSetKeepFirst(obj, key, value) ==
    [k \in DOMAIN obj \cup {key} |-> IF k \in DOMAIN obj THEN obj[k] ELSE value]

\* obj[key] = value on a plain object
ObjSet(obj, key, value) ==
    [k \in DOMAIN obj \cup {key} |-> IF k = key THEN value ELSE obj[k]]

CurGenResults == genTranslations[genLang].results

\* generateFiles is entered: the output directory is ensured, forEach starts
GenerateFiles ==
    /\ genPc = "idle"
    /\ genLang' = 1
    /\ genIndex' = 1
    /\ translationMap' = EmptyMap
    /\ genPc' = IF genTranslations = <<>> THEN "done" ELSE "build"
    /\ UNCHANGED <<serviceVars, utilVars, scanVars, genStrings, genTranslations,
                   savedJSON, savedI18next>>

\* One iteration of results.forEach in buildTranslationMap
BuildMapEntry ==
    /\ genPc = "build"
    /\ genIndex <= Len(CurGenResults)
    /\ LET key == FileGeneratorKey(genStrings[genIndex]) IN
       translationMap' =
           ObjSet(translationMap, key, CurGenResults[genIndex].translatedText)
    /\ genIndex' = genIndex + 1
    /\ UNCHANGED <<serviceVars, utilVars, scanVars, genStrings, genTranslations, genPc,
                   genLang, savedJSON, savedI18next>>

\* buildTranslationMap returns; saveJSONFile and saveI18nextFile write the
\* files of the language, and translations.forEach goes on
SaveFiles ==
    /\ genPc = "build"
    /\ genIndex > Len(CurGenResults)
    /\ savedJSON' = ObjSet(savedJSON, genTranslations[genLang].language, translationMap)
    /\ savedI18next' = ObjSet(savedI18next, genTranslations[genLang].language,
                              [translation |-> translationMap])
    /\ genLang' = genLang + 1
    /\ genIndex' = 1
    /\ translationMap' = EmptyMap
    /\ genPc' = IF genLang < Len(genTranslations) THEN "build" ELSE "done"
    /\ UNCHANGED <<serviceVars, utilVars, scanVars, genStrings, genTranslations>>

\* A TranslationFileGenerator after construction
GeneratorInit ==
    /\ genPc = "idle"
    /\ genLang = 0
    /\ genIndex = 0
    /\ translationMap = EmptyMap
    /\ savedJSON = EmptyMap
    /\ savedI18next = EmptyMap

\* No generateFiles call is made
GeneratorIdle == GeneratorInit /\ genStrings = <<>> /\ genTranslations = <<>>

-----------------------------------------------------------------------------
(* Specifications *)

\* AITranslationService after construction, no call running
ServiceInit ==
    /\ providers = <<>>
    /\ pc = "idle"
    /\ extractedStrings = <<>>
    /\ targetLanguages = <<>>
    /\ providerName = "OpenAI"
    /\ provider = None
    /\ results = EmptyMap
    /\ langIdx = 0
    /\ translations = None
    /\ batchPath = "none"
    /\ fbIndex = 0
    /\ fbResults = <<>>
    /\ outcomes = <<>>
    /\ attempt = 0
    /\ invocations = 0
    /\ lastError = None
    /\ lastResponse = None
    /\ delayLog = <<>>
    /\ providerCalled = FALSE
    /\ batchCalls = <<>>
    /\ translateCalls = {}
    /\ thrown = None

Init ==
    /\ ServiceInit
    /\ UtilIdle /\ inputText = <<>>
    /\ ScannerInit /\ files = <<>>
    /\ GeneratorIdle

Next ==
    \/ \E prov \in ProviderObjects : AddProvider(prov)
    \/ \E strs \in InputStrings, langs \in InputLangs, name \in RequestedNames :
           TranslateStrings(strs, langs, name)
    \/ CustomBatch
    \/ BatchResponse
    \/ TranslateResponse
    \/ DelayElapsed

Spec == Init /\ [][Next]_vars

UtilInit ==
    /\ ServiceInit
    /\ UtilIdle /\ inputText \in TextInputs
    /\ ScannerInit /\ files = <<>>
    /\ GeneratorIdle

UtilNext ==
    \/ ShouldExtractString
    \/ ShouldExtract
    \/ ExportToJSON
    \/ BuildTranslationMap
    \/ \E len \in MaxLengths : GenerateTranslationKey(len)
    \/ RederiveKey

UtilSpec == UtilInit /\ [][UtilNext]_vars

ScanInit ==
    /\ ServiceInit
    /\ UtilIdle /\ inputText = <<>>
    /\ ScannerInit /\ files \in FileLists
    /\ GeneratorIdle

ScanNext ==
    \/ EditFile
    \/ Scan
    \/ ScanGlobFails
    \/ ParseFile
    \/ EnterJSXText
    \/ EnterJSXExpressionContainer
    \/ EnterStringLiteral
    \/ EnterTemplateLiteral
    \/ EnterOtherNode
    \/ ParseFileReturn
    \/ GenerateSummary
    \/ ExportResults

ScanSpec == ScanInit /\ [][ScanNext]_vars

FileInit ==
    /\ ServiceInit
    /\ UtilIdle /\ inputText = <<>>
    /\ ScannerInit /\ files = <<>>
    /\ GeneratorInit
    /\ genStrings \in GenStringLists
    /\ genTranslations \in GenTranslationMaps(genStrings)

FileNext ==
    \/ GenerateFiles
    \/ BuildMapEntry
    \/ SaveFiles

FileSpec == FileInit /\ [][FileNext]_vars

-----------------------------------------------------------------------------
(* Properties of the orchestration *)

\* The fallback loop of a built-in translator is running
InFallback == pc \in {"translate", "delay"}

\* The language whose iteration of the loop ended last
LastLang == targetLanguages[langIdx - 1]

\* The last translateBatch call failed at the outer level of translateStrings:
\* it threw, or it returned more translations than there are strings
OuterFailure ==
    \/ batchPath = "threw"
    \/ batchPath = "batch" /\ translations # None /\ Len(translations[1]) > N

AllOriginal(rs) ==
    /\ Len(rs) = N
    /\ \A i \in 1..N : /\ rs[i].originalText = extractedStrings[i].text
                       /\ rs[i].translatedText = extractedStrings[i].text

\* C1: every result sequence stored for a language has exactly N elements, the
\* i-th of which carries the text of the i-th extracted string
C1_ResultsZipWithInput ==
    \A l \in DOMAIN results :
        /\ Len(results[l]) = N
        /\ \A i \in 1..N : results[l][i].originalText = extractedStrings[i].text

\* C2 as claimed: for any N, the returned mapping has an entry for every target
\* language, and a language that failed at the outer level has an entry whose
\* items all keep their original text
C2_EveryLanguageHasEntry ==
    /\ pc = "returned" =>
           \A k \in 1..Len(targetLanguages) : targetLanguages[k] \in DOMAIN results
    /\ OuterFailure =>
           LastLang \in DOMAIN results /\ AllOriginal(results[LastLang])

\* C2 as amended: the same for N >= 1; for N = 0 the returned mapping is empty
C2_EveryLanguageHasEntryIfStrings ==
    /\ pc = "returned" /\ N >= 1 =>
           \A k \in 1..Len(targetLanguages) : targetLanguages[k] \in DOMAIN results
    /\ pc = "returned" /\ N = 0 => DOMAIN results = {}
    /\ OuterFailure =>
           LastLang \in DOMAIN results /\ AllOriginal(results[LastLang])

C2_Witness ==
    /\ pc = "returned"
    /\ N = MaxStrings
    /\ Len(targetLanguages) = 2
    /\ targetLanguages[1] # targetLanguages[2]
    /\ batchPath = "threw"
    /\ ~AllOriginal(results[targetLanguages[1]])

\* C3: when translateBatch returns through the per-item fallback it returns
\* exactly N results, and result i is what the retried translate of text i
\* returned, or text i itself if that item failed
C3_FallbackReturnsNInOrder ==
    batchPath = "fallback" =>
        /\ translations # None
        /\ Len(translations[1]) = N
        /\ Len(outcomes) = N
        /\ \A i \in 1..N :
               translations[1][i] =
                   IF outcomes[i].ok THEN outcomes[i].value ELSE Texts[i]

C3_Witness ==
    /\ batchPath = "fallback"
    /\ N = MaxStrings
    /\ ~outcomes[1].ok
    /\ outcomes[N].ok
    /\ translations[1][N] # Texts[N]

\* C4: in the fallback, an item whose attempts all failed gets its original text,
\* an item whose attempt succeeded keeps the translation it got, whatever happened
\* to the other items, and the run raises no error; the stored results say the same
C4_FailedItemKeepsOriginal ==
    /\ InFallback \/ batchPath = "fallback" =>
           /\ pc # "thrown" /\ thrown = None
           /\ Len(fbResults) = Len(outcomes)
           /\ \A i \in 1..Len(outcomes) :
                  /\ ~outcomes[i].ok => fbResults[i] = Texts[i]
                  /\ outcomes[i].ok => fbResults[i] = outcomes[i].value
    /\ batchPath = "fallback" =>
           /\ Len(results[LastLang]) = N
           /\ \A i \in 1..N :
                  /\ ~outcomes[i].ok =>
                         results[LastLang][i].translatedText = extractedStrings[i].text
                  /\ outcomes[i].ok =>
                         results[LastLang][i].translatedText = outcomes[i].value

C4_Witness ==
    /\ batchPath = "fallback"
    /\ N = MaxStrings
    /\ outcomes[1].ok
    /\ results[LastLang][1].translatedText # extractedStrings[1].text
    /\ ~outcomes[N].ok

\* C5 as claimed: translate is invoked for one item at most maxRetries times,
\* which is 3 with the default configuration
C5_AtMostMaxRetriesCalls ==
    InFallback => invocations <= Config.maxRetries

\* C5 as amended: translate is invoked for one item at most maxRetries + 1 times
\* (4 with the default configuration): the attempt counter never passes maxRetries
\* and every attempt is one call
C5_AtMostMaxRetriesPlusOneCalls ==
    InFallback =>
        /\ attempt <= Config.maxRetries
        /\ invocations = attempt + 1
        /\ invocations <= Config.maxRetries + 1

C5_Witness ==
    /\ pc = "translate"
    /\ Config.maxRetries = DefaultMaxRetries
    /\ invocations = DefaultMaxRetries + 1

\* C6 as claimed: counting attempts from 1, the delay waited before attempt k is
\* base_delay * 2^(k-1)
C6_DelayBeforeAttemptK ==
    pc = "translate" /\ attempt >= 1 =>
        LET k == attempt + 1
        IN  delayLog[Len(delayLog)] = Config.retryDelay * Pow2(k - 1)

\* C6 as amended: no delay precedes attempt 1, and the delay waited after the
\* failed attempt k, before attempt k + 1, is base_delay * 2^(k-1); successive
\* delays double
C6_DelayAfterAttemptK ==
    InFallback =>
        /\ Len(delayLog) = IF pc = "delay" THEN attempt + 1 ELSE attempt
        /\ \A k \in 1..Len(delayLog) : delayLog[k] = Config.retryDelay * Pow2(k - 1)
        /\ \A k \in 2..Len(delayLog) : delayLog[k] = 2 * delayLog[k - 1]

C6_Witness ==
    /\ pc = "translate"
    /\ Len(delayLog) = DefaultMaxRetries
    /\ delayLog[1] = DefaultRetryDelay

\* C7: a translateStrings call naming an unregistered provider raises at once an
\* error listing the registered names, invokes no provider and returns no mapping;
\* a registered name resolves to the provider registered under it
C7_UnknownProviderRaises ==
    pc # "idle" =>
        IF ~MapHas(providers, providerName)
        THEN /\ pc = "thrown"
             /\ thrown # None
             /\ thrown[1].name = "Error"
             /\ thrown[1].message =
                    <<"Provider", providerName, "not found. Available providers:">>
                        \o [i \in 1..Len(providers) |-> providers[i].name]
             /\ ~providerCalled
             /\ provider = None
             /\ DOMAIN results = {}
        ELSE /\ pc # "thrown"
             /\ thrown = None
             /\ provider # None
             /\ provider[1].name = providerName

C7_Witness ==
    /\ pc = "thrown"
    /\ extractedStrings = <<>>
    /\ targetLanguages # <<>>
    /\ Len(providers) >= 2

\* C8: once the provider is resolved and N >= 1, no step of translateStrings
\* raises, and no step changes the results stored for a language other than the
\* one being translated
C8_LanguageFailuresIsolated ==
    [][(pc \in {"batch", "translate", "delay"} /\ provider # None /\ N >= 1) =>
          (/\ pc' # "thrown"
           /\ thrown' = None
           /\ \A l \in DOMAIN results :
                  l # CurLang => l \in DOMAIN results' /\ results'[l] = results[l])]_vars

C8_Witness ==
    /\ langIdx = 3
    /\ targetLanguages[1] # targetLanguages[2]
    /\ batchPath = "threw"
    /\ AllOriginal(results[targetLanguages[2]])
    /\ ~AllOriginal(results[targetLanguages[1]])

\* C9: translateBatch of a built-in translator given N texts returns exactly N
\* translated texts
C9_BatchReturnsNTexts ==
    batchPath \in {"batch", "fallback"} /\ IsBuiltIn(provider[1]) =>
        Len(translations[1]) = N

\* C10: after a response with a non-OK status, the error translate raised is an
\* APIError carrying the status code of the response
C10_TranslateRaisesAPIError ==
    InFallback /\ lastResponse # None /\ lastResponse[1].type = "http" =>
        /\ lastError[1].name = "APIError"
        /\ lastError[1].statusCode = Some(lastResponse[1].status)

\* A successful transport response without the expected structure: no choices /
\* translations list, or an empty one
LacksStructure(response) ==
    /\ response.type = "json"
    /\ \/ response.body = EmptyBody
       \/ "choices" \in DOMAIN response.body /\ response.body.choices = <<>>
       \/ "translations" \in DOMAIN response.body /\ response.body.translations = <<>>

\* C11: a translate call that saw a successful response lacking the expected
\* structure returned the original text of the item and raised nothing
C11_UnstructuredResponseReturnsOriginal ==
    InFallback /\ lastResponse # None /\ LacksStructure(lastResponse[1]) =>
        /\ lastError = None
        /\ Translate(provider[1], Texts[fbIndex], lastResponse[1]) =
               Return(Texts[fbIndex])

-----------------------------------------------------------------------------
(* Properties of the text utilities *)

AllIn(t, S) == \A i \in 1..Len(t) : t[i] \in S

\* A run of digits, optionally followed by a point and another run of digits
IsNumeral(t) ==
    \E k \in 1..Len(t) :
        /\ AllIn(SubSeq(t, 1, k), AsciiDigits)
        /\ \/ k = Len(t)
           \/ /\ k + 2 <= Len(t)
              /\ t[k + 1] = "."
              /\ AllIn(SubSeq(t, k + 2, Len(t)), AsciiDigits)

\* The texts the classifier is said to reject
SaidRejected(t) ==
    \/ Len(t) < 2
    \/ AllIn(t, WhitespaceChars)
    \/ t[1] \in IdentifierStart /\ AllIn(Tail(t), IdentifierPart)
    \/ AllIn(t, {".", "/", "\\"})
    \/ IsNumeral(t)
    \/ t[1] = "#" /\ Len(t) \in 4..9 /\ AllIn(Tail(t), HexDigits)
    \/ \E i \in 1..Len(t), j \in 1..Len(t) :
           SubSeq(t, i, j) \in {ClassNameText, OnClickText}

C13_RejectsPathsHandlersNumbersColors ==
    /\ extracted # None
    /\ \/ inputText \in { <<".", "/", "s", "r", "c", "/", "A", "p", "p">>,
                         <<".", "/", "s", "r", "c", "/", "c", "o", "m", "p", "o", "n", "e", "n", "t">>,
                         <<"4", "2">>,
                         <<"#", "F", "F", "0", "0", "0", "0">> }
       \/ includes(inputText, OnClickText)
    => extracted = Some(FALSE)

\* C14: the derived key has only characters of [a-z0-9_], is at most maxLength
\* long and neither starts nor ends with an underscore
C14_KeyIsCleanAndBounded ==
    derivedKey # None =>
        LET k == derivedKey[1] IN
        /\ AllIn(k, KeyChars \cup {"_"})
        /\ Len(k) <= MaxLengthOf(maxLength)
        /\ k # <<>> => k[1] # "_" /\ k[Len(k)] # "_"

\* C14 with the default maxLength: the key of LongText does not end with an
\* underscore
C14_DefaultLengthKeyIsClean ==
    inputText = LongText /\ derivedKey # None /\ maxLength = None =>
        derivedKey[1][Len(derivedKey[1])] # "_"

\* C15: deriving the key of a derived key returns that key unchanged
C15_KeyDerivationIdempotent ==
    rederivedKey # None => rederivedKey = derivedKey

\* C16: the key exportToJSON wrote for a text equals the key under which
\* buildTranslationMap stores the translation of the same text
C16_ExportAndMapBackAgree ==
    utilCall = "buildTranslationMap" => exportedKey = derivedKey

C16_Witness ==
    /\ utilCall = "buildTranslationMap"
    /\ Len(inputText) = 3
    /\ inputText[1] = "U+00E9"
    /\ inputText[2] = "Z"
    /\ exportedKey = Some(<<"e", "z">>)
    /\ derivedKey = exportedKey

-----------------------------------------------------------------------------
(* Properties of the parser and the scanner *)

ScanReturned == scanPc \in {"scanned", "summarised", "exported"}

\* The entries of the scan results for the file at position k of files
EntriesOf(k) == { e \in 1..Len(scanResults) : scanResults[e].file = files[k].path }

\* The strings reported for the file at position k, none if it has no entry
ReportedStrings(k) ==
    IF EntriesOf(k) = {} THEN <<>>
    ELSE Deref(scanResults[CHOOSE e \in EntriesOf(k) : TRUE].strings)

HasJSXAncestor(tree, i) ==
    \E a \in Ancestors(tree, i) : tree[a].kind \in {"JSXElement", "JSXFragment"}

\* Node i is a string literal written as the value of a JSX attribute, directly
\* or as a braced literal
IsAttributeLiteral(tree, i) ==
    /\ tree[i].kind = "StringLiteral"
    /\ \/ tree[tree[i].parent].kind = "JSXAttribute"
       \/ /\ tree[tree[i].parent].kind = "JSXExpressionContainer"
          /\ tree[tree[tree[i].parent].parent].kind = "JSXAttribute"

\* The record at position k of strings reports node i of tree: it carries the
\* location of the node, or that of the expression container holding the node
ReportsNode(tree, strings, k, i) ==
    \/ strings[k].line = i
    \/ /\ strings[k].type = "jsx_attribute"
       /\ strings[k].line = tree[i].parent
       /\ tree[tree[i].parent].kind = "JSXExpressionContainer"

ReportsOfNode(tree, strings, i) ==
    { k \in 1..Len(strings) : ReportsNode(tree, strings, k, i) }

\* C17: after the scan, a classifier-accepted string literal that is the value
\* of a JSX attribute, direct or braced, is reported exactly once, with kind
\* jsx_attribute
C17_AttributeLiteralReportedOnce ==
    ScanReturned =>
        \A f \in 1..Len(files) :
            files[f].kind = "source" =>
                \A i \in 1..Len(files[f].tree) :
                    IsAttributeLiteral(files[f].tree, i)
                        /\ shouldExtract(files[f].tree[i].value) =>
                    LET strings == ReportedStrings(f)
                        reports == ReportsOfNode(files[f].tree, strings, i)
                    IN  /\ Cardinality(reports) = 1
                        /\ \A k \in reports : strings[k].type = "jsx_attribute"

\* The trees walked so far, each with the strings recorded for it
WalkedStrings ==
    { <<files[f].tree, ReportedStrings(f)>> :
          f \in { k \in 1..Len(files) : EntriesOf(k) # {} } }
        \cup IF scanPc = "traverse" THEN { <<CurTree, Deref(parserStrings)>> } ELSE {}

\* C18: no string recorded with kind string_literal or template_literal belongs
\* to a node with a JSX element or fragment among its ancestors, at any
\* depth, and no node is recorded more than once
C18_NoLiteralRecordedInsideJSX ==
    \A w \in WalkedStrings :
        LET tree == w[1]
            strings == w[2]
        IN  /\ \A k \in 1..Len(strings) :
                   strings[k].type \in {"string_literal", "template_literal"} =>
                       ~HasJSXAncestor(tree, strings[k].line)
            /\ \A i \in 3..Len(tree) :
                   tree[i].kind \in {"StringLiteral", "TemplateLiteral", "JSXText"} =>
                       Cardinality(ReportsOfNode(tree, strings, i)) <= 1

C18_Witness ==
    /\ scanPc = "scanned"
    /\ Len(files) = 1
    /\ scanResults # <<>>
    /\ \E i \in 3..Len(files[1].tree) :
           /\ files[1].tree[i].kind = "StringLiteral"
           /\ shouldExtract(files[1].tree[i].value)
           /\ files[1].tree[files[1].tree[i].parent].kind = "CallExpression"
           /\ HasJSXAncestor(files[1].tree, i)
           /\ ReportsOfNode(files[1].tree, ReportedStrings(1), i) = {}

\* C19: when the scan has returned, a file that failed to read or parse has no
\* entry, and every other file with a translatable string has exactly one
\* entry, holding exactly the strings of that file
C19_FailingFilesDoNotAbortScan ==
    ScanReturned =>
        \A k \in 1..Len(files) :
            LET own == ParseFileResult(files[k]) IN
            IF files[k].kind # "source" \/ own = <<>>
            THEN EntriesOf(k) = {}
            ELSE Cardinality(EntriesOf(k)) = 1 /\ ReportedStrings(k) = own

C19_Witness ==
    /\ scanPc = "scanned"
    /\ Len(files) = 2
    /\ files[1].kind = "syntaxError"
    /\ files[2] = ButtonFile
    /\ Len(scanResults) = 1
    /\ scanResults[1].file = ButtonFile.path
    /\ Len(ReportedStrings(2)) = 2

\* C20: files without translatable strings are left out of the scan results,
\* and the summary counts every enumerated file as scanned
C20_SummaryCountsEnumeratedFiles ==
    summary # None =>
        /\ \A k \in 1..Len(files) : ParseFileResult(files[k]) = <<>> => EntriesOf(k) = {}
        /\ summary[1].totalFiles = Len(files)

-----------------------------------------------------------------------------
(* Properties of the locale file builder *)

\* The key the text of entry i derives
KeyOfEntry(i) == generateTranslationKey(genStrings[i], DefaultMaxLength)

\* The entries of a result sequence whose source text derives key k
EntriesDeriving(rs, k) == { i \in 1..Len(rs) : KeyOfEntry(i) = k }

SetMax(S) == CHOOSE x \in S : \A y \in S : y <= x

\* The results of the language whose files were written as `lang`
ResultsOfLanguage(lang) ==
    genTranslations[CHOOSE l \in 1..Len(genTranslations) :
                        genTranslations[l].language = lang].results

\* C21: the flat map written for a language has exactly the keys its entries
\* derive, and every key maps to the translatedText of the last entry, in
\* extraction order, whose source text derives that key
C21_LocaleMapLastWriteWins ==
    \A lang \in DOMAIN savedJSON :
        LET rs == ResultsOfLanguage(lang)
            flat == savedJSON[lang]
        IN  /\ DOMAIN flat = { KeyOfEntry(i) : i \in 1..Len(rs) }
            /\ \A k \in DOMAIN flat :
                   flat[k] = rs[SetMax(EntriesDeriving(rs, k))].translatedText
            /\ savedI18next[lang].translation = flat

C21_Witness ==
    /\ genPc = "done"
    /\ Len(genStrings) = 3
    /\ genStrings[1].text = TextSaveFile
    /\ genStrings[2].text = TextHelloWorld
    /\ genStrings[3].text = TextSaveFileDashed
    /\ "fr" \in DOMAIN savedJSON
    /\ Cardinality(DOMAIN savedJSON["fr"]) = 2
    /\ savedJSON["fr"][KeyOfEntry(1)] = <<"fr", ":">> \o TextSaveFileDashed

\* C29: every extracted text being accepted by the classifier, no entry of a
\* locale map is stored under the empty key
C29_NoEmptyKey ==
    (\A i \in 1..Len(genStrings) : shouldExtract(genStrings[i].text)) =>
        /\ <<>> \notin DOMAIN translationMap
        /\ \A lang \in DOMAIN savedJSON : <<>> \notin DOMAIN savedJSON[lang]

-----------------------------------------------------------------------------
(* The order of the provider calls *)

\* The languages at the positions before j have their result sequence stored
StoredBefore(j, res) ==
    \A k \in 1..(j - 1) :
        /\ targetLanguages[k] \in DOMAIN res
        /\ \A i \in 1..Len(res[targetLanguages[k]]) :
               res[targetLanguages[k]][i].language = targetLanguages[k]

\* C22: every provider call (translateBatch, and each translate of the
\* fallback) is made for the language at the position the loop is at, when the
\* result sequences of all the languages before it are stored; the loop moves
\* one position at a time, and only when the result sequence of the language
\* it leaves is stored
C22_LanguagesOneAfterAnother ==
    [][ /\ pc = "batch" =>
             /\ batchCalls' = Append(batchCalls, batchCalls'[Len(batchCalls')])
             /\ batchCalls'[Len(batchCalls')].lang = targetLanguages[langIdx]
             /\ Len(batchCalls') = langIdx
             /\ StoredBefore(langIdx, results)
        /\ pc = "translate" =>
             /\ \A c \in translateCalls' \ translateCalls :
                    c.pos = langIdx /\ c.lang = targetLanguages[langIdx]
             /\ \E c \in translateCalls' :
                    c.pos = langIdx /\ c.lang = targetLanguages[langIdx]
             /\ StoredBefore(langIdx, results)
        /\ pc \in {"batch", "translate", "delay"} /\ langIdx' # langIdx =>
             /\ langIdx' = langIdx + 1
             /\ StoredBefore(langIdx', results')
      ]_vars

C22_Witness ==
    /\ pc = "delay"
    /\ targetLanguages = <<"fr", "es">>
    /\ langIdx = 2
    /\ batchCalls[1].raised
    /\ \E c \in translateCalls : c.pos = 1 /\ c.lang = "fr"
    /\ \E c \in translateCalls : c.pos = 2 /\ c.lang = "es"
    /\ "fr" \in DOMAIN results /\ "es" \notin DOMAIN results

\* The number of translateBatch calls translateStrings has made so far
BatchCallsMade ==
    CASE pc = "batch" -> langIdx - 1
      [] pc \in {"translate", "delay"} -> langIdx
      [] pc = "returned" -> IF extractedStrings = <<>> THEN 0 ELSE Len(targetLanguages)
      [] OTHER -> 0

\* C27: translateBatch was invoked once for each language reached, in the order
\* of the list, with the texts of all the extracted strings and their contexts
\* at the same indices; every translate call was made at a position whose
\* batch request had raised an error
C27_BatchOncePerLanguage ==
    /\ Len(batchCalls) = BatchCallsMade
    /\ \A j \in 1..Len(batchCalls) :
          /\ batchCalls[j].lang = targetLanguages[j]
          /\ batchCalls[j].texts =
                 [i \in 1..Len(extractedStrings) |-> extractedStrings[i].text]
          /\ batchCalls[j].contexts =
                 [i \in 1..Len(extractedStrings) |-> extractedStrings[i].context]
    /\ \A c \in translateCalls :
          /\ c.pos \in 1..Len(batchCalls)
          /\ batchCalls[c.pos].raised
          /\ batchCalls[c.pos].lang = c.lang
          /\ \E i \in 1..Len(extractedStrings) :
                 c.text = extractedStrings[i].text /\ c.context = extractedStrings[i].context
    /\ InFallback => batchCalls[langIdx].raised

C27_Witness ==
    /\ pc = "returned"
    /\ Len(extractedStrings) = 2
    /\ Len(batchCalls) = 2
    /\ batchCalls[1].raised
    /\ ~batchCalls[2].raised
    /\ Cardinality(translateCalls) = 2

-----------------------------------------------------------------------------
(* retryWithBackoff *)

\* What fn can do when invoked for the item the fallback is at
FnOutcomes ==
    { Translate(provider[1], extractedStrings[fbIndex].text, response) :
        response \in Responses(provider[1].name, {0, 1}) }

\* C28: when an invocation of fn ends, either it succeeded, its value is what
\* retryWithBackoff returns (the fallback pushes it) and fn is not invoked
\* again by this call (a following invocation is the first one for the next
\* item); or it failed at attempt maxRetries, no delay follows, after as many
\* delays as earlier attempts, and the error raised is the error of this
\* invocation; or it failed earlier and a delay follows
C28_RetryReturnsFirstSuccess ==
    [][ pc = "translate" =>
          IF Len(outcomes') = Len(outcomes) + 1
          THEN LET o == outcomes'[Len(outcomes')] IN
               /\ o \in FnOutcomes
               /\ pc' # "delay"
               /\ pc' = "translate" =>
                      fbIndex' = fbIndex + 1 /\ attempt' = 0 /\ invocations' = 1
               /\ pc' # "translate" => invocations' = 0
               /\ o.ok => fbResults' = Append(fbResults, o.value)
               /\ ~o.ok =>
                      /\ attempt = Config.maxRetries
                      /\ invocations = Config.maxRetries + 1
                      /\ Len(delayLog) = Config.maxRetries
          ELSE /\ pc' = "delay"
               /\ attempt < Config.maxRetries
               /\ outcomes' = outcomes /\ fbResults' = fbResults
               /\ lastError' # None /\ Throw(lastError'[1]) \in FnOutcomes
               /\ Len(delayLog') = Len(delayLog) + 1
      ]_vars

C28_Witness ==
    /\ pc = "returned"
    /\ Len(outcomes) = 2
    /\ outcomes[1].ok
    /\ ~outcomes[2].ok
    /\ Throw(outcomes[2].error) = outcomes[2]
    /\ Config.maxRetries = DefaultMaxRetries

-----------------------------------------------------------------------------
(* What the parser reports *)

\* The texts reported for the file at position f
ReportedTexts(f) ==
    { ReportedStrings(f)[k].text : k \in 1..Len(ReportedStrings(f)) }

\* "Bonjour {name}, content de vous voir !"
TextSubtitle == TextBonjour \o <<"{">> \o TextName \o <<"}">> \o TextContentDeVousVoir

\* C23: after the scan, every classifier-accepted string literal of a parsed
\* file is reported, also when it stands deeper inside a JSX expression (the
\* literal written directly as an attribute value is left to C17), and the
\* four texts of the Welcome component are reported for it
C23_EveryAcceptedLiteralReported ==
    ScanReturned =>
        \A f \in 1..Len(files) :
            files[f].kind = "source" =>
                /\ \A i \in 3..Len(files[f].tree) :
                       files[f].tree[i].kind = "StringLiteral"
                           /\ files[f].tree[files[f].tree[i].parent].kind # "JSXAttribute"
                           /\ shouldExtract(files[f].tree[i].value) =>
                       ReportsOfNode(files[f].tree, ReportedStrings(f), i) # {}
                /\ files[f] = WelcomeFile =>
                       {TextBienvenue, TextSubtitle, TextActionConfirmee, TextContinuer}
                           \subseteq ReportedTexts(f)

\* The nearest ancestor of node i that is a variable declarator or an object
\* property, 0 if there is none
NearestBinding(tree, i) ==
    LET bindings == { a \in Ancestors(tree, i) :
                        tree[a].kind \in {"VariableDeclarator", "ObjectProperty"} }
    IN  IF bindings = {} THEN 0 ELSE SetMax(bindings)

\* C24: the context of a string recorded as string_literal or template_literal
\* names the nearest enclosing binding construct of its node: the key of the
\* object property, the name of the variable, or "String literal" if none
C24_ContextNamesNearestBinding ==
    \A w \in WalkedStrings :
        LET tree == w[1]
            strings == w[2]
        IN  \A k \in 1..Len(strings) :
                strings[k].type \in {"string_literal", "template_literal"} =>
                    LET binding == NearestBinding(tree, strings[k].line) IN
                    strings[k].context =
                        IF binding = 0 THEN <<"String literal">>
                        ELSE IF tree[binding].kind = "ObjectProperty"
                             THEN <<"Object property: ", tree[binding].name>>
                             ELSE <<"Variable: ", tree[binding].name>>

\* The text of a segment: its cooked value, its raw text if that is missing
\* or empty
SegmentText(quasi) ==
    IF quasi.cooked # None /\ quasi.cooked[1] # <<>> THEN quasi.cooked[1] ELSE quasi.raw

PlaceholderName(expr) ==
    IF expr.kind = "Identifier" THEN expr.name
    ELSE IF expr.kind = "MemberExpression" THEN <<"v", "a", "l", "u", "e">>
    ELSE IF expr.kind = "TSType" THEN <<"t", "y", "p", "e">>
    ELSE <<"e", "x", "p", "r", "e", "s", "s", "i", "o", "n">>

RECURSIVE Interleaved(_, _)
\* The segments in order, one {placeholder} between two consecutive segments
Interleaved(segments, names) ==
    IF names = <<>> THEN Head(segments)
    ELSE Head(segments) \o <<"{">> \o Head(names) \o <<"}">>
             \o Interleaved(Tail(segments), Tail(names))

\* part occurs in whole as a run of consecutive characters
Occurs(part, whole) ==
    \E i \in 0..(Len(whole) - Len(part)) : SubSeq(whole, i + 1, i + Len(part)) = part

KeptFiles ==
    { k \in 1..Len(files) :
        files[k].kind = "source" /\ ParseFileResult(files[k]) # <<>> }

\* C26: when the scan has returned, its entries are the files with a string, in
\* the order of the enumeration, and at any time the strings recorded for a
\* file are in the order the walk entered their nodes
C26_FilesAndStringsInOrder ==
    /\ ScanReturned =>
          /\ Len(scanResults) = Cardinality(KeptFiles)
          /\ \A e \in 1..Len(scanResults) :
                 \E k \in KeptFiles :
                     /\ scanResults[e].file = files[k].path
                     /\ Cardinality({ j \in KeptFiles : j < k }) = e - 1
    /\ \A w \in WalkedStrings :
          \A a, b \in 1..Len(w[2]) : a < b => w[2][a].line < w[2][b].line

C26_Witness ==
    /\ scanPc = "scanned"
    /\ files = <<WelcomeFile, ButtonFile>>
    /\ Len(scanResults) = 2
    /\ scanResults[1].file = WelcomeFile.path
    /\ [k \in 1..2 |-> ReportedStrings(1)[k].type] = <<"string_literal", "template_literal">>
    /\ [k \in 1..2 |-> ReportedStrings(2)[k].type] = <<"jsx_attribute", "jsx_text">>

\* The text the visitors take from node i
TextAt(tree, i) ==
    CASE tree[i].kind = "JSXText" -> trimText(tree[i].value)
      [] tree[i].kind = "StringLiteral" -> tree[i].value
      [] tree[i].kind = "TemplateLiteral" -> reconstructTemplateLiteral(tree[i])
      [] tree[i].kind = "JSXExpressionContainer" /\ ExpressionOf(tree, i) # 0 ->
            tree[ExpressionOf(tree, i)].value
      [] OTHER -> <<>>

\* C30: the sequence parseFile returns for a file holds only strings taken
\* from nodes of that file, and no later step, the calls of parseFile for the
\* next files among them, changes a sequence returned before
C30_ReturnedSequencesAreStable ==
    [][ /\ \A e \in 1..Len(scanResults) :
             /\ e <= Len(scanResults')
             /\ scanResults'[e] = scanResults[e]
             /\ heap'[scanResults[e].strings] = heap[scanResults[e].strings]
        /\ Len(scanResults') > Len(scanResults) =>
             LET returned == heap'[scanResults'[Len(scanResults')].strings] IN
             /\ scanResults'[Len(scanResults')].file = CurFile.path
             /\ \A k \in 1..Len(returned) :
                    /\ returned[k].line \in 3..Len(CurTree)
                    /\ returned[k].text = TextAt(CurTree, returned[k].line)
      ]_vars

C30_Witness ==
    /\ scanPc = "scanned"
    /\ Len(files) = 2
    /\ files[1] = ButtonFile
    /\ files[2].kind = "syntaxError"
    /\ Len(heap) = 3
    /\ Len(scanResults) = 1
    /\ Deref(scanResults[1].strings) = ParseFileResult(ButtonFile)
    /\ Deref(parserStrings) = <<>>

====
